---- MODULE Spec2Model ----
(***************************************************************************)
(* Model of the HWPX template engine of k-grant-apply:                     *)
(*   scripts/expand_template.py  (one-time growth of the Gantt table)      *)
(*   scripts/write_hwpx.py       (block expansion, placeholder filling,    *)
(*                                schedule-table filling)                  *)
(*                                                                         *)
(* Text is a sequence of tokens.  Every literal the code matches on is a   *)
(* sequence of whole tokens, so the code's substring tests, replacements   *)
(* and trimming are the same operations on token sequences.                *)
(*                                                                         *)
(* Tree nodes:                                                             *)
(*   t    [tag |-> "t", text]                  text span  (hp:t)           *)
(*   tbl  [tag |-> "tbl", rowCnt, height, rows] table     (hp:tbl, hp:sz)  *)
(*   run  [kids]            sequence of t / tbl nodes     (hp:run)         *)
(*   p    [id, lsa, runs]   lsa: has a linesegarray child (hp:p)           *)
(*   tc   [id, rowAddr, height, paras] (hp:tc, hp:cellAddr, hp:cellSz)     *)
(*   tr   [id, cells]                                     (hp:tr)          *)
(* id stands for the identity of the Python object (0 where the code never *)
(* looks a node up by identity).                                           *)
(*                                                                         *)
(* Variables: pc the position in the pipeline; tbl, outerH the Gantt table *)
(* and the declared height of its wrapper; doc the paragraphs of the       *)
(* section root; inp the input read so far; loc the locals of the          *)
(* placeholder loop; gh a history of what the operations did.              *)
(***************************************************************************)
EXTENDS Integers, Sequences, FiniteSets, TLC

VARIABLES pc, tbl, outerH, doc, inp, loc, gh

vars == <<pc, tbl, outerH, doc, inp, loc, gh>>

(***************************************************************************)
(* Text                                                                    *)
(***************************************************************************)
SP == "_"

Digits == {"0", "1", "2", "3", "4", "5", "6", "7", "8", "9"}

DigitTok == <<"1", "2", "3", "4", "5", "6", "7", "8", "9">>

\* str(n) for a one-digit positive n
Str(n) == DigitTok[n]

RECURSIVE LStrip(_)
LStrip(s) == IF s # <<>> /\ Head(s) = SP THEN LStrip(Tail(s)) ELSE s

RECURSIVE RStrip(_)
RStrip(s) ==
    IF s # <<>> /\ s[Len(s)] = SP THEN RStrip(SubSeq(s, 1, Len(s) - 1)) ELSE s

\* str.strip()
Strip(s) == RStrip(LStrip(s))

\* pat in s
Contains(s, pat) ==
    \E i \in 0..(Len(s) - Len(pat)) : SubSeq(s, i + 1, i + Len(pat)) = pat

\* s.startswith(pat)
StartsWith(s, pat) == Len(pat) <= Len(s) /\ SubSeq(s, 1, Len(pat)) = pat

\* s.replace(pat, rep), pat not empty: leftmost, non-overlapping
RECURSIVE Replace(_, _, _)
Replace(s, pat, rep) ==
    IF s = <<>> THEN <<>>
    ELSE IF StartsWith(s, pat)
         THEN rep \o Replace(SubSeq(s, Len(pat) + 1, Len(s)), pat, rep)
         ELSE <<Head(s)>> \o Replace(Tail(s), pat, rep)

\* s.isdigit()
IsDigit(s) == s # <<>> /\ \A i \in 1..Len(s) : s[i] \in Digits

\* the literals of the two scripts
LblYear1 == <<"1", "cha", SP, "nyeondo">>
LblYear2 == <<"2", "cha", SP, "nyeondo">>
LblNYear == <<"N", "cha", "nyeondo">>
LblNYearSp == <<"N", "cha", SP, "nyeondo">>
LblChaNyeondo == <<"cha", "nyeondo">>
LblNStage == <<"N", "dangye">>
LblSquare == <<"sq">>
LblYearN(y) == <<Str(y), "cha", "nyeondo">>
LblYearNSp(y) == <<Str(y), "cha", SP, "nyeondo">>
LblStage(s) == <<Str(s), "dangye">>
ColTask == <<"chujin", "naeyong">>
ColSched == <<"chujin", SP, "iljeong">>
ColResult == <<"gyeolgwamul">>
GoalTarget == <<"sq", SP, "N", "cha", "nyeondo", "(", "N", "dangye", ")", SP, "goal:">>
ContentTarget == <<"sq", SP, "N", "cha", "nyeondo", "(", "N", "dangye", ")">>
Sentinel == <<"o", SP, SP, SP, SP, SP, "-">>

(***************************************************************************)
(* Tree constructors                                                       *)
(***************************************************************************)
T(text) == [tag |-> "t", text |-> text]

Run(kids) == [kids |-> kids]

P(id, lsa, runs) == [id |-> id, lsa |-> lsa, runs |-> runs]

\* a paragraph with one run holding one text span
PlainP(id, lsa, text) == P(id, lsa, <<Run(<<T(text)>>)>>)

Tc(addr, h, paras) == [id |-> 0, rowAddr |-> addr, height |-> h, paras |-> paras]

\* a cell that is looked up as the parent of its paragraphs
TcId(id, paras) == [id |-> id, rowAddr |-> 0, height |-> 1, paras |-> paras]

Tr(id, cells) == [id |-> id, cells |-> cells]

Tbl(cnt, h, rows) == [tag |-> "tbl", rowCnt |-> cnt, height |-> h, rows |-> rows]

(***************************************************************************)
(* get_all_text / get_text: the text of every hp:t below a node, in        *)
(* document order, joined and trimmed                                      *)
(***************************************************************************)
RECURSIVE TextOfParas(_), TextOfRuns(_), TextOfKids(_), TextOfRows(_), TextOfCells(_)
TextOfParas(ps) ==
    IF ps = <<>> THEN <<>>
    ELSE TextOfRuns(Head(ps).runs) \o TextOfParas(Tail(ps))

TextOfRuns(rs) ==
    IF rs = <<>> THEN <<>>
    ELSE TextOfKids(Head(rs).kids) \o TextOfRuns(Tail(rs))

TextOfKids(ks) ==
    IF ks = <<>> THEN <<>>
    ELSE (IF Head(ks).tag = "t" THEN Head(ks).text ELSE TextOfRows(Head(ks).rows))
         \o TextOfKids(Tail(ks))

TextOfRows(rows) ==
    IF rows = <<>> THEN <<>>
    ELSE TextOfCells(Head(rows).cells) \o TextOfRows(Tail(rows))

TextOfCells(cells) ==
    IF cells = <<>> THEN <<>>
    ELSE TextOfParas(Head(cells).paras) \o TextOfCells(Tail(cells))

\* get_all_text(p) for a paragraph
get_all_text(p) == Strip(TextOfParas(<<p>>))

\* get_all_text(tc) for a cell
get_all_text_tc(tc) == Strip(TextOfCells(<<tc>>))

\* get_text(elem) of expand_template.py, for a cell
get_text(tc) == Strip(TextOfCells(<<tc>>))

(***************************************************************************)
(* Paragraph and cell text setters                                         *)
(***************************************************************************)
HasTbl(run) == \E i \in 1..Len(run.kids) : run.kids[i].tag = "tbl"

HasT(run) == \E i \in 1..Len(run.kids) : run.kids[i].tag = "t"

FirstT(run) == CHOOSE i \in 1..Len(run.kids) :
    /\ run.kids[i].tag = "t"
    /\ \A j \in 1..(i - 1) : run.kids[j].tag # "t"

\* the runs of a paragraph that hold no table at any depth
RECURSIVE DropTblRuns(_)
DropTblRuns(rs) ==
    IF rs = <<>> THEN <<>>
    ELSE IF HasTbl(Head(rs)) THEN DropTblRuns(Tail(rs))
         ELSE <<Head(rs)>> \o DropTblRuns(Tail(rs))

\* run.find(t).text = text
SetRunText(run, text) == [run EXCEPT !.kids[FirstT(run)] = T(text)]

strip_linesegarray(p) == [p EXCEPT !.lsa = FALSE]

set_para_text(p, new_text) ==
    LET rs == DropTblRuns(p.runs)
        q == strip_linesegarray([p EXCEPT !.runs = rs])
    IN  IF \E i \in 1..Len(rs) : HasT(rs[i])
        THEN LET i == CHOOSE k \in 1..Len(rs) :
                        HasT(rs[k]) /\ \A j \in 1..(k - 1) : ~HasT(rs[j])
             IN  [q EXCEPT !.runs[i] = SetRunText(rs[i], new_text)]
        ELSE [q EXCEPT !.runs = Append(rs, Run(<<T(new_text)>>))]

\* set_cell_text: the first paragraph of the cell gets the text
set_cell_text(tc, new_text) ==
    IF tc.paras = <<>> THEN tc
    ELSE [tc EXCEPT !.paras[1] = set_para_text(tc.paras[1], new_text)]

\* make_content_para: the copy is a new object nid
make_content_para(template_p, text, nid) ==
    LET rs == DropTblRuns(template_p.runs)
        q == strip_linesegarray([template_p EXCEPT !.runs = rs, !.id = nid])
    IN  IF rs = <<>>
        THEN [q EXCEPT !.runs = <<Run(<<T(text)>>)>>]
        ELSE IF HasT(rs[1])
             THEN [q EXCEPT !.runs[1] = SetRunText(rs[1], text)]
             ELSE [q EXCEPT !.runs[1] = Run(Append(rs[1].kids, T(text)))]

(***************************************************************************)
(* Walks over every hp:t and hp:p below a node (elem.iter, './/' paths)    *)
(*   m.op = "clear"  : t.text = '' and every linesegarray removed          *)
(*   m.op = "fix"    : the generic fragments of every t.text made concrete *)
(*   m.op = "reid"   : the nodes of a deep copy are new objects            *)
(*   m.op = "setp"   : the paragraph m.id becomes m.q                      *)
(*   m.op = "setkids": the children of the cell m.par become m.kids        *)
(***************************************************************************)
\* _fix_all_n_year_text, for one t.text
FixText(text, total_years, stage) ==
    LET a == IF Contains(text, LblNYear)
             THEN Replace(text, LblNYear, LblYearN(total_years)) ELSE text
    IN  IF Contains(a, LblNStage) THEN Replace(a, LblNStage, LblStage(stage)) ELSE a

MapText(m, text) ==
    IF m.op = "clear" THEN <<>>
    ELSE IF m.op = "fix" THEN FixText(text, m.total_years, m.stage)
    ELSE text

MapLsa(m, lsa, depth) ==
    IF m.op = "clear" THEN (IF m.deep \/ depth = 0 THEN FALSE ELSE lsa) ELSE lsa

\* copy.deepcopy makes new objects: every id of the copy is moved by m.off
MapId(m, id) == IF m.op = "reid" THEN id + m.off ELSE id

RECURSIVE MapParas(_, _, _), MapRuns(_, _, _), MapKids(_, _, _), MapRows(_, _, _), MapCells(_, _, _)
MapParas(ps, m, d) ==
    IF ps = <<>> THEN <<>>
    ELSE <<IF m.op = "setp" /\ Head(ps).id = m.id THEN m.q
           ELSE [Head(ps) EXCEPT !.id = MapId(m, @), !.lsa = MapLsa(m, @, d),
                                 !.runs = MapRuns(@, m, d)]>>
         \o MapParas(Tail(ps), m, d)

MapRuns(rs, m, d) ==
    IF rs = <<>> THEN <<>>
    ELSE <<[Head(rs) EXCEPT !.kids = MapKids(@, m, d)]>> \o MapRuns(Tail(rs), m, d)

MapKids(ks, m, d) ==
    IF ks = <<>> THEN <<>>
    ELSE <<IF Head(ks).tag = "t"
           THEN [Head(ks) EXCEPT !.text = MapText(m, @)]
           ELSE [Head(ks) EXCEPT !.rows = MapRows(@, m, d + 1)]>>
         \o MapKids(Tail(ks), m, d)

MapRows(rows, m, d) ==
    IF rows = <<>> THEN <<>>
    ELSE <<[Head(rows) EXCEPT !.cells = MapCells(@, m, d)]>> \o MapRows(Tail(rows), m, d)

MapCells(cells, m, d) ==
    IF cells = <<>> THEN <<>>
    ELSE <<IF m.op = "setkids" /\ Head(cells).id = m.par
           THEN [Head(cells) EXCEPT !.paras = m.kids]
           ELSE [Head(cells) EXCEPT !.id = MapId(m, @), !.paras = MapParas(@, m, d)]>>
         \o MapCells(Tail(cells), m, d)

\* a mutant: only the linesegarray of the row's own paragraphs is removed
make_empty_row_shallow(template_row, nid) ==
    [id |-> nid, cells |-> MapCells(template_row.cells, [op |-> "clear", deep |-> FALSE], 0)]

\* make_empty_row: the copy is a new object nid
make_empty_row(template_row, nid) ==
    [id |-> nid, cells |-> MapCells(template_row.cells, [op |-> "clear", deep |-> TRUE], 0)]

\* _fix_all_n_year_text over the rows of a table
fix_rows(rows, total_years, stage) ==
    MapRows(rows, [op |-> "fix", total_years |-> total_years, stage |-> stage], 0)

(***************************************************************************)
(* Rows of a table                                                         *)
(***************************************************************************)
RowIndex(rows, id) == CHOOSE i \in 1..Len(rows) : rows[i].id = id

RowById(rows, id) == rows[RowIndex(rows, id)]

\* parent.insert(idx, x), idx a zero-based position; behind the end it appends
InsertAt(s, idx, x) ==
    IF idx >= Len(s) THEN Append(s, x)
    ELSE SubSeq(s, 1, idx) \o <<x>> \o SubSeq(s, idx + 1, Len(s))

RemoveAt(s, i) == SubSeq(s, 1, i - 1) \o SubSeq(s, i + 1, Len(s))

RECURSIVE SumFirstH(_)
SumFirstH(rows) ==
    IF rows = <<>> THEN 0
    ELSE (IF Head(rows).cells = <<>> THEN 0 ELSE Head(rows).cells[1].height)
         + SumFirstH(Tail(rows))

\* renumber_row_addrs: cellAddr.rowAddr = zero-based index of the row
renumber_row_addrs(rows) ==
    [i \in 1..Len(rows) |->
        [rows[i] EXCEPT !.cells =
            [j \in 1..Len(rows[i].cells) |-> [rows[i].cells[j] EXCEPT !.rowAddr = i - 1]]]]

\* recalc_heights: <<inner sz.height, outer sz.height>>
recalc_heights(inner, outer) ==
    LET total_h == SumFirstH(inner.rows)
        delta == total_h - inner.height
    IN  <<total_h, outer + delta>>

(***************************************************************************)
(* The Gantt table of the template (docstring of _fill_schedule_tbl):      *)
(*   "1차 년도" | column headers | month numbers | 26-cell task rows with  *)
(*   24-cell continuation rows | "2차 년도" | 14-cell rows | "N차년도" |   *)
(*   14-cell rows                                                          *)
(***************************************************************************)
TaskCells1 == 26
ContCells1 == 24
TaskCells23 == 14
MonthCells == 12
TARGET_YEAR2_ROWS == 9
TARGET_YEAR3_ROWS == 9

\* bounds of the templates and inputs explored
MaxRows == 2
MaxTasks == 3
MaxYears == 3
OuterPad == 5

NumText(j) ==
    IF j < 10 THEN <<Str(j)>>
    ELSE <<"1", IF j = 10 THEN "0" ELSE Str(j - 10)>>

\* a cell paragraph that also embeds a one-cell table holding its own paragraph
RichP(text) ==
    P(0, TRUE, << Run(<<T(text)>>),
                  Run(<<Tbl(1, 1, <<Tr(0, <<Tc(0, 1, <<PlainP(0, TRUE, <<"box">>)>>)>>)>>)>>) >>)

\* row kinds: [n cells, h height of the cells, first/last cell text, kind]
HdrRow(label) == [n |-> 1, h |-> 2, first |-> label, last |-> label, kind |-> "hdr"]
ColRow == [n |-> 3, h |-> 2, first |-> ColTask, last |-> ColResult, kind |-> "col"]
MonthRow == [n |-> MonthCells, h |-> 1, first |-> <<>>, last |-> <<>>, kind |-> "month"]
TaskRow(n, rich) == [n |-> n, h |-> 3, first |-> <<"x">>, last |-> <<"y">>,
                     kind |-> IF rich THEN "rich" ELSE "task"]
ContRow == [n |-> ContCells1, h |-> 1, first |-> <<>>, last |-> <<>>, kind |-> "cont"]

MkCell(sp, j, addr) ==
    IF sp.kind = "month" THEN Tc(addr, sp.h, <<PlainP(0, TRUE, NumText(j))>>)
    ELSE IF j = 1
         THEN Tc(addr, sp.h, <<IF sp.kind = "rich" THEN RichP(sp.first)
                                ELSE PlainP(0, TRUE, sp.first)>>)
         ELSE IF j = sp.n THEN Tc(addr, sp.h, <<PlainP(0, TRUE, sp.last)>>)
         ELSE IF sp.kind = "col" THEN Tc(addr, sp.h, <<PlainP(0, FALSE, ColSched)>>)
         ELSE Tc(addr, sp.h, <<PlainP(0, FALSE, <<>>)>>)

MkRow(sp, i) == Tr(i, [j \in 1..sp.n |-> MkCell(sp, j, i - 1)])

RECURSIVE Rep(_, _)
Rep(s, n) == IF n = 0 THEN <<>> ELSE s \o Rep(s, n - 1)

\* n1 task rows of year 1, each followed by c continuation rows; n2 rows of
\* year 2; n3 rows under the generic header
TemplateRows(n1, c, n2, n3, rich) ==
    LET sps == <<HdrRow(LblYear1), ColRow, MonthRow>>
               \o Rep(<<TaskRow(TaskCells1, rich)>> \o Rep(<<ContRow>>, c), n1)
               \o <<HdrRow(LblYear2)>> \o Rep(<<TaskRow(TaskCells23, rich)>>, n2)
               \o <<HdrRow(LblNYear)>> \o Rep(<<TaskRow(TaskCells23, FALSE)>>, n3)
    IN  [i \in 1..Len(sps) |-> MkRow(sps[i], i)]

Template(n1, c, n2, n3, rich) ==
    LET rows == TemplateRows(n1, c, n2, n3, rich)
    IN  Tbl(Len(rows), SumFirstH(rows), rows)

\* a mutant: last_row is not advanced, every copy goes right behind the template
RECURSIVE InsertClonesStale(_, _, _, _, _)
InsertClonesStale(rows, last_id, clone, n, nid) ==
    IF n <= 0 THEN rows
    ELSE InsertClonesStale(InsertAt(rows, RowIndex(rows, last_id), [clone EXCEPT !.id = nid]),
                           last_id, clone, n - 1, nid + 1)

\* for _ in range(n): index(last_row); insert(idx + 1, new_row); last_row = new_row
\* the copies are the new objects nid, nid + 1, ...
RECURSIVE InsertClones(_, _, _, _, _)
InsertClones(rows, last_id, clone, n, nid) ==
    IF n <= 0 THEN rows
    ELSE InsertClones(InsertAt(rows, RowIndex(rows, last_id), [clone EXCEPT !.id = nid]),
                      nid, clone, n - 1, nid + 1)

(***************************************************************************)
(* expand_template.py                                                      *)
(***************************************************************************)
\* step 4: positions (1-based, 0 for None) of the headers and the task rows
RECURSIVE ClassifyET(_, _, _)
ClassifyET(rows, i, st) ==
    IF i > Len(rows) THEN st
    ELSE LET cells == rows[i].cells
             txt == IF cells = <<>> THEN <<>> ELSE Strip(get_text(cells[1]))
         IN  ClassifyET(rows, i + 1,
                IF cells = <<>> THEN st
                ELSE IF Len(cells) = 1 /\ Contains(txt, LblYear2)
                     THEN [st EXCEPT !.y2h = i]
                ELSE IF Len(cells) = 1
                        /\ (Contains(txt, LblNYear) \/ Contains(txt, LblYearN(3)))
                     THEN [st EXCEPT !.y3h = i]
                ELSE IF st.y2h # 0 /\ st.y3h = 0
                     THEN [st EXCEPT !.y2 = Append(@, i)]
                ELSE IF st.y3h # 0
                     THEN [st EXCEPT !.y3 = Append(@, i)]
                ELSE st)

\* the second scan, after the rows of year 2 were added
RECURSIVE ClassifyET3(_, _, _)
ClassifyET3(rows, i, st) ==
    IF i > Len(rows) THEN st
    ELSE LET cells == rows[i].cells
             txt == IF cells = <<>> THEN <<>> ELSE Strip(get_text(cells[1]))
         IN  ClassifyET3(rows, i + 1,
                IF cells = <<>> THEN st
                ELSE IF Len(cells) = 1
                        /\ (Contains(txt, LblNYear) \/ Contains(txt, LblYearN(3)))
                     THEN [st EXCEPT !.y3h = i]
                ELSE IF st.y3h # 0
                     THEN [st EXCEPT !.y3 = Append(@, i)]
                ELSE st)

ET0 == [y2h |-> 0, y3h |-> 0, y2 |-> <<>>, y3 |-> <<>>]

\* steps 5 and 6: the last task row of the section (positions task_pos, not
\* empty) is copied until the section has target rows
ETGrow(rows, task_pos, target, nid) ==
    LET template_row == rows[task_pos[Len(task_pos)]]
        add == IF target > Len(task_pos) THEN target - Len(task_pos) ELSE 0
        new_row == make_empty_row(template_row, 0)
    IN  [rows |-> InsertClones(rows, template_row.id, new_row, add, nid),
         nid |-> nid + add, clones |-> Rep(<<new_row>>, add),
         tmpl |-> template_row.id, add |-> add]

\* steps 7 and 8: rowCnt, rowAddr and the two heights
ETFinish(t, rows, outer) ==
    LET t4 == [t EXCEPT !.rows = renumber_row_addrs(rows), !.rowCnt = Len(rows)]
        hs == recalc_heights(t4, outer)
    IN  [tbl |-> [t4 EXCEPT !.height = hs[1]], outer |-> hs[2]]

(***************************************************************************)
(* write_hwpx.py: _fill_schedule_tbl                                       *)
(***************************************************************************)
\* year_label_map in insertion order: <<label, n>> for the key 'year<n>'
RECURSIVE YearLabels(_, _)
YearLabels(yr, total_years) ==
    IF yr > total_years THEN <<>>
    ELSE <<<<LblYearN(yr), yr>>, <<LblYearNSp(yr), yr>>>> \o YearLabels(yr + 1, total_years)

year_label_map(total_years) ==
    <<<<LblYear1, 1>>, <<LblYear2, 2>>>> \o YearLabels(3, total_years)
    \o <<<<LblNYear, total_years>>, <<LblNYearSp, total_years>>>>

\* the key of the first label found in the text, 0 for None
MatchLabel(map, text) ==
    IF \E i \in 1..Len(map) : Contains(text, map[i][1])
    THEN map[CHOOSE i \in 1..Len(map) :
                /\ Contains(text, map[i][1])
                /\ \A j \in 1..(i - 1) : ~Contains(text, map[j][1])][2]
    ELSE 0

PushSection(st) ==
    IF st.cur = 0 THEN st.sections
    ELSE Append(st.sections, [key |-> st.cur, hdr |-> st.hdr, rows |-> st.rows])

\* pass 1: the sections, each [key, hdr: header row, rows: task rows]
RECURSIVE CollectSections(_, _, _, _)
CollectSections(rows, i, map, st) ==
    IF i > Len(rows) THEN PushSection(st)
    ELSE LET cells == rows[i].cells
             cell0_text == Strip(get_all_text_tc(cells[1]))
             matched == IF Len(cells) = 1 THEN MatchLabel(map, cell0_text) ELSE 0
         IN  CollectSections(rows, i + 1, map,
                IF cells = <<>> THEN st
                ELSE IF matched # 0
                     THEN [sections |-> PushSection(st), cur |-> matched,
                           hdr |-> rows[i].id, rows |-> <<>>]
                ELSE IF cell0_text \in {ColTask, ColSched, ColResult} THEN st
                ELSE IF /\ Len(cells) = MonthCells
                        /\ \E j \in 1..Len(cells) : IsDigit(Strip(get_all_text_tc(cells[j])))
                     THEN st
                ELSE IF st.cur # 0 THEN [st EXCEPT !.rows = Append(@, rows[i].id)]
                ELSE st)

\* the header cell of a section: a generic label is made concrete
FixHeader(row, total_years) ==
    IF row.cells = <<>> THEN row
    ELSE LET hdr_text == Strip(get_all_text_tc(row.cells[1]))
         IN  IF Contains(hdr_text, LblNYear)
             THEN [row EXCEPT !.cells[1] =
                      set_cell_text(@, Replace(hdr_text, LblNYear, LblYearN(total_years)))]
             ELSE row

\* a mutant: the copy keeps the text of the template row
clone_row_kept(template_row, nid) ==
    [template_row EXCEPT !.id = nid]

\* the copy of the clone loop: all text cleared, every linesegarray removed
clone_row(template_row, nid) ==
    [id |-> nid, cells |-> MapCells(template_row.cells, [op |-> "clear", deep |-> TRUE], 0)]

\* one writable row filled with the entry, or cleared
FillRow(row, has, task) ==
    LET n == Len(row.cells)
        c1 == [row EXCEPT !.cells[1] = set_cell_text(@, IF has THEN task.task ELSE <<>>)]
    IN  IF n > 1
        THEN [c1 EXCEPT !.cells[n] = set_cell_text(@, IF has THEN task.result ELSE <<>>)]
        ELSE c1

RECURSIVE FillWritable(_, _, _, _)
FillWritable(rows, writable, tasks, i) ==
    IF i > Len(writable) THEN rows
    ELSE LET k == RowIndex(rows, writable[i])
         IN  FillWritable([rows EXCEPT ![k] =
                              FillRow(@, i <= Len(tasks), IF i <= Len(tasks) THEN tasks[i] ELSE <<>>)],
                          writable, tasks, i + 1)

RECURSIVE SelectCells(_, _, _)
SelectCells(rows, ids, n) ==
    IF ids = <<>> THEN <<>>
    ELSE (IF Len(RowById(rows, Head(ids)).cells) = n THEN <<Head(ids)>> ELSE <<>>)
         \o SelectCells(rows, Tail(ids), n)

RowIds(rows) == [i \in 1..Len(rows) |-> rows[i].id]

Range(a, b) == [i \in 1..(b - a + 1) |-> a + i - 1]

\* pass 2 for the sections k..: acc = [rows, nid, log]
RECURSIVE FillSections(_, _, _, _, _)
FillSections(sections, k, schedule_data, total_years, acc) ==
    IF k > Len(sections) THEN acc
    ELSE LET sec == sections[k]
             rows1 == [acc.rows EXCEPT ![RowIndex(acc.rows, sec.hdr)] = FixHeader(@, total_years)]
             tasks == IF sec.key \in DOMAIN schedule_data THEN schedule_data[sec.key] ELSE <<>>
             writable0 == IF sec.key = 1 THEN SelectCells(rows1, sec.rows, TaskCells1)
                          ELSE sec.rows
             grow == tasks # <<>> /\ sec.rows # <<>> /\ Len(writable0) < Len(tasks)
             needed == IF grow THEN Len(tasks) - Len(writable0) ELSE 0
             tmpl == IF grow THEN sec.rows[Len(sec.rows)] ELSE 0
             new_row == clone_row(RowById(rows1, tmpl), 0)
             rows2 == IF grow THEN InsertClones(rows1, tmpl, new_row, needed, acc.nid)
                      ELSE rows1
             clones == IF grow THEN Range(acc.nid, acc.nid + needed - 1) ELSE <<>>
             writable == writable0 \o clones
             rows3 == FillWritable(rows2, writable, tasks, 1)
         IN  FillSections(sections, k + 1, schedule_data, total_years,
                [rows |-> rows3, nid |-> acc.nid + needed,
                 log |-> Append(acc.log,
                    [key |-> sec.key, hdr |-> sec.hdr, task_rows |-> sec.rows,
                     w0 |-> Len(writable0), tasks |-> tasks, tmpl |-> tmpl,
                     clones |-> clones, writable |-> writable,
                     inserted |-> IF grow THEN <<new_row>> ELSE <<>>,
                     before |-> RowIds(rows1), grown |-> RowIds(rows2)])])

fill_schedule_tbl(t, schedule_data, total_years, nid) ==
    LET sections == CollectSections(t.rows, 1, year_label_map(total_years),
                        [sections |-> <<>>, cur |-> 0, hdr |-> 0, rows |-> <<>>])
    IN  FillSections(sections, 1, schedule_data, total_years,
                     [rows |-> t.rows, nid |-> nid, log |-> <<>>])

(***************************************************************************)
(* The schedule table through the two scripts                              *)
(*   pc = "template": the shipped template; expand_template.py may be run  *)
(*                    on it once                                           *)
(*   modify_application: step 1 (expand_year_blocks, whose final sweep     *)
(*   rewrites the text spans of the table), then step 5 (the table fill)   *)
(***************************************************************************)
Entry(i) == [task |-> <<"a", Str(i)>>, result |-> <<"r", Str(i)>>]

Entries(n) == [i \in 1..n |-> Entry(i)]

\* the schedule mappings for the keys K: year 1 has a entries, the other years b
Schedules(K) ==
    {[y \in K |-> Entries(IF y = 1 THEN a ELSE b)] : a \in 0..MaxTasks, b \in 0..MaxTasks}

EmptyTbl == Tbl(0, 0, <<>>)

Gh0 == [nid |-> 100, expanded |-> FALSE, et |-> <<>>, raw |-> <<>>, pre |-> <<>>, log |-> <<>>]

Inp0 == [total_years |-> 0, stage |-> 0, schedule |-> <<>>]

\* the locals of modify_application's placeholder pass, before it
Loc0 == [placeholders |-> <<>>, placeholder_contents |-> <<>>, i |-> 0]

\* the templates: the embedded boxes come with the continuation rows
InitRows ==
    \E n1 \in 1..MaxRows, c \in 0..1, n2 \in 0..MaxRows, n3 \in 0..MaxRows :
        /\ pc = "template"
        /\ tbl = Template(n1, c, n2, n3, c = 1)
        /\ outerH = SumFirstH(TemplateRows(n1, c, n2, n3, c = 1)) + OuterPad
        /\ doc = <<>>
        /\ inp = Inp0
        /\ loc = Loc0
        /\ gh = Gh0

\* python3 expand_template.py; the script stops on an IndexError, before it
\* saves anything, where a section has no task row to copy
RunExpandTemplate ==
    /\ pc = "template"
    /\ ~gh.expanded
    /\ \E st \in {ClassifyET(tbl.rows, 1, ET0)} :
        /\ st.y2 # <<>>
        /\ \E g2 \in {ETGrow(tbl.rows, st.y2, TARGET_YEAR2_ROWS, gh.nid)} :
            \E st3 \in {ClassifyET3(g2.rows, 1, ET0)} :
              /\ st3.y3 # <<>>
              /\ \E g3 \in {ETGrow(g2.rows, st3.y3, TARGET_YEAR3_ROWS, g2.nid)} :
                  \E r \in {ETFinish(tbl, g3.rows, outerH)} :
                    /\ tbl' = r.tbl
                    /\ outerH' = r.outer
                    /\ gh' = [gh EXCEPT !.expanded = TRUE, !.nid = g3.nid,
                                 !.et = <<[clones |-> g2.clones \o g3.clones,
                                           tmpl |-> <<g2.tmpl, g3.tmpl>>,
                                           add |-> <<g2.add, g3.add>>,
                                           before |-> RowIds(tbl.rows),
                                           inner |-> tbl.height, outer |-> outerH]>>]
    /\ UNCHANGED <<pc, doc, inp, loc>>

\* modify_application step 1 on the table: _meta is read, and the final sweep
\* of expand_year_blocks (_fix_all_n_year_text) passes over the table
StepFixTable ==
    /\ pc = "template"
    /\ pc' = "swept"
    /\ \E total_years \in 2..MaxYears :
        /\ inp' = [inp EXCEPT !.total_years = total_years, !.stage = 1]
        /\ tbl' = [tbl EXCEPT !.rows = fix_rows(@, total_years, 1)]
    /\ gh' = [gh EXCEPT !.raw = tbl.rows]
    /\ UNCHANGED <<outerH, doc, loc>>

\* modify_application step 5: data['schedule'] is read, and fill_schedule_table
\* runs if it is not empty
StepFillSchedule ==
    /\ pc = "swept"
    /\ pc' = "filled"
    /\ \E K \in {{1, 2, inp.total_years}, {2, inp.total_years}, {}} :
         \E schedule \in Schedules(K) :
            /\ inp' = [inp EXCEPT !.schedule = schedule]
            /\ IF K = {}
               THEN UNCHANGED <<tbl, gh>>
               ELSE \E r \in {fill_schedule_tbl(tbl, schedule, inp.total_years, gh.nid)} :
                        /\ tbl' = [tbl EXCEPT !.rows = r.rows]
                        /\ gh' = [gh EXCEPT !.nid = r.nid, !.log = r.log,
                                     !.pre = <<[inner |-> tbl.height, outer |-> outerH,
                                                rows |-> RowIds(tbl.rows),
                                                was |-> tbl.rows]>>]
    /\ UNCHANGED <<outerH, doc, loc>>

NextRows == RunExpandTemplate \/ StepFixTable \/ StepFillSchedule

SpecRows == InitRows /\ [][NextRows]_vars

(***************************************************************************)
(* Properties of the row growth                                            *)
(***************************************************************************)
RECURSIVE AnyLsaParas(_), AnyLsaRuns(_), AnyLsaKids(_), AnyLsaRows(_), AnyLsaCells(_)
AnyLsaParas(ps) ==
    ps # <<>> /\ (Head(ps).lsa \/ AnyLsaRuns(Head(ps).runs) \/ AnyLsaParas(Tail(ps)))

AnyLsaRuns(rs) ==
    rs # <<>> /\ (AnyLsaKids(Head(rs).kids) \/ AnyLsaRuns(Tail(rs)))

AnyLsaKids(ks) ==
    ks # <<>> /\ ((Head(ks).tag = "tbl" /\ AnyLsaRows(Head(ks).rows)) \/ AnyLsaKids(Tail(ks)))

AnyLsaRows(rows) ==
    rows # <<>> /\ (AnyLsaCells(Head(rows).cells) \/ AnyLsaRows(Tail(rows)))

AnyLsaCells(cells) ==
    cells # <<>> /\ (AnyLsaParas(Head(cells).paras) \/ AnyLsaCells(Tail(cells)))

\* every text span of the row is empty, and no linesegarray is left at any depth
RowIsBlank(row) == TextOfCells(row.cells) = <<>> /\ ~AnyLsaCells(row.cells)

RowAddrsOK(t) ==
    \A i \in 1..Len(t.rows) : \A j \in 1..Len(t.rows[i].cells) :
        t.rows[i].cells[j].rowAddr = i - 1

\* expand_template.py added rows
GrewByTemplate == gh.expanded /\ gh.et[1].clones # <<>>

\* the clone loop of _fill_schedule_tbl added rows
GrewByFill == pc = "filled" /\ \E k \in 1..Len(gh.log) : gh.log[k].clones # <<>>

\* C1: after a row growth by expand_template or by the clone loop of
\* _fill_schedule_tbl, every cell of the row at zero-based position i has
\* rowAddr = i.  Stated as claimed; the clone loop renumbers nothing.
C1_RowAddrAfterGrowth == (GrewByTemplate \/ GrewByFill) => RowAddrsOK(tbl)

\* C2: after a row growth by either path, rowCnt equals the number of rows.
\* Stated as claimed; the clone loop leaves rowCnt alone.
C2_RowCntAfterGrowth == (GrewByTemplate \/ GrewByFill) => tbl.rowCnt = Len(tbl.rows)

\* the heights before the last growth
HeightsBefore == IF GrewByFill THEN gh.pre[1] ELSE gh.et[1]

\* C3: after a row growth the declared height of the data table is the sum of
\* the first-cell heights of its rows, and the wrapper's declared height moved
\* by the same delta.  Stated as claimed; the clone loop leaves sz alone.
C3_HeightAfterGrowth ==
    (GrewByTemplate \/ GrewByFill) =>
        /\ tbl.height = SumFirstH(tbl.rows)
        /\ outerH - HeightsBefore.outer = tbl.height - HeightsBefore.inner

\* the rows as they were inserted, by either script
InsertedRows ==
    (IF gh.expanded THEN {gh.et[1].clones[i] : i \in 1..Len(gh.et[1].clones)} ELSE {})
    \cup UNION {{gh.log[k].inserted[i] : i \in 1..Len(gh.log[k].inserted)} :
                    k \in 1..Len(gh.log)}

ClonesFollowTemplate(sec) ==
    LET k == CHOOSE i \in 1..Len(sec.before) : sec.before[i] = sec.tmpl
    IN  sec.grown = SubSeq(sec.before, 1, k) \o sec.clones
                    \o SubSeq(sec.before, k + 1, Len(sec.before))

GrowthAsClaimed(sec) ==
    IF Len(sec.tasks) > sec.w0
    THEN /\ Len(sec.clones) = Len(sec.tasks) - sec.w0
         /\ Len(sec.grown) = Len(sec.before) + Len(sec.clones)
         /\ sec.tmpl = sec.task_rows[Len(sec.task_rows)]
         /\ ClonesFollowTemplate(sec)
    ELSE sec.clones = <<>> /\ sec.grown = sec.before

\* C7 as claimed: a section with w writable rows and t entries gets t - w
\* clones when t > w, whatever rows it has.
C7_GrowthAsClaimed == \A k \in 1..Len(gh.log) : GrowthAsClaimed(gh.log[k])

\* C7, amended: a section that has at least one task row gets exactly t - w
\* clones when t > w, each right behind the one before it and the first right
\* behind the template row (the last task row); with t <= w, or with no task
\* row at all, no row is added.
C7_Growth ==
    \A k \in 1..Len(gh.log) :
        IF gh.log[k].task_rows # <<>>
        THEN GrowthAsClaimed(gh.log[k])
        ELSE gh.log[k].clones = <<>> /\ gh.log[k].grown = gh.log[k].before

\* a section grew by two rows or more, and another had nothing to copy
C7_Witness ==
    /\ pc = "filled"
    /\ \E k \in 1..Len(gh.log) : Len(gh.log[k].clones) >= 2
    /\ \E k \in 1..Len(gh.log) :
          gh.log[k].task_rows = <<>> /\ Len(gh.log[k].tasks) > 0

FilledAsClaimed(sec) ==
    \A i \in 1..Len(sec.writable) :
        LET row == RowById(tbl.rows, sec.writable[i])
            first == get_all_text_tc(row.cells[1])
            last == get_all_text_tc(row.cells[Len(row.cells)])
        IN  IF i <= Len(sec.tasks)
            THEN first = sec.tasks[i].task /\ last = sec.tasks[i].result
            ELSE first = <<>> /\ last = <<>>

\* C8: after _fill_schedule_tbl the i-th writable row of every section holds
\* the i-th task in its first cell and the i-th result in its last cell, or is
\* empty in both beyond the entries; no row was removed.  Stated as claimed.
C8_RowsFilled ==
    pc = "filled" /\ gh.pre # <<>> =>
        /\ \A k \in 1..Len(gh.log) : FilledAsClaimed(gh.log[k])
        /\ \A i \in 1..Len(gh.pre[1].rows) :
              \E j \in 1..Len(tbl.rows) : tbl.rows[j].id = gh.pre[1].rows[i]

\* the same with a period count of 3 or more: the generic header is then
\* recognised as a section header
C8_RowsFilledFrom3 == inp.total_years >= 3 => C8_RowsFilled

\* the rows of a section as pass 1 collected them: header and task rows
SectionRows(sec) == <<sec.hdr>> \o sec.task_rows

\* C11: where the input has no entry for the key of a detected anchor, the
\* text of the template nodes of that anchor is as it was before the run;
\* here for the sections of the schedule table.  Stated as claimed; the rows
\* of a section without entries are cleared.
C11_AbsentKeyUntouched ==
    pc = "filled" /\ gh.pre # <<>> =>
        \A k \in 1..Len(gh.log) :
            gh.log[k].key \notin DOMAIN inp.schedule =>
                \A i \in 1..Len(SectionRows(gh.log[k])) :
                    TextOfCells(RowById(tbl.rows, SectionRows(gh.log[k])[i]).cells)
                      = TextOfCells(RowById(gh.pre[1].was, SectionRows(gh.log[k])[i]).cells)

\* the same from three periods on, where every header is recognised
C11_From3 == inp.total_years >= 3 => C11_AbsentKeyUntouched

\* C12: every row of one cell is a section header; none is collected as a
\* task row or written to as a writable row, for any period count.  Stated as
\* claimed; the swept label '2차년도' is no key of year_label_map.
C12_SingleCellRowsAreHeaders ==
    pc = "filled" =>
        \A k \in 1..Len(gh.log) :
            \A i \in 1..Len(gh.log[k].task_rows) :
                Len(RowById(tbl.rows, gh.log[k].task_rows[i]).cells) # 1

\* the same from three periods on
C12_From3 == inp.total_years >= 3 => C12_SingleCellRowsAreHeaders

\* the cell count of the writable rows of a section
WritableCells(key) == IF key = 1 THEN TaskCells1 ELSE TaskCells23

WritableAsClaimed(sec) ==
    /\ \A i \in 1..Len(sec.writable) :
          Len(RowById(tbl.rows, sec.writable[i]).cells) = WritableCells(sec.key)
    /\ sec.clones # <<>> => sec.w0 > 0 /\ sec.tmpl = sec.writable[sec.w0]

\* C13: no continuation row is in the writable list, and every clone is a
\* copy of the section's last writable row, so that every row that receives
\* an entry has the writable cell count of its section.  Stated as claimed;
\* the clone loop copies the last collected row, writable or not.
C13_WritableCellCount ==
    pc = "filled" => \A k \in 1..Len(gh.log) : WritableAsClaimed(gh.log[k])

\* the same from three periods on, where every header is recognised
C13_From3 == inp.total_years >= 3 => C13_WritableCellCount

\* the same from three periods on for the sections without continuation rows
C13_NoContinuation ==
    pc = "filled" /\ inp.total_years >= 3 =>
        \A k \in 1..Len(gh.log) :
            (\A i \in 1..Len(gh.log[k].task_rows) :
                Len(RowById(tbl.rows, gh.log[k].task_rows[i]).cells)
                    = WritableCells(gh.log[k].key))
            => WritableAsClaimed(gh.log[k])

(***************************************************************************)
(* Paragraphs of the section: root.iter(hp:p), getparent(), list(parent)   *)
(* The parent of a top-level paragraph is the root; the parent of a        *)
(* paragraph inside a table is its cell.                                   *)
(***************************************************************************)
Root == 0

\* root.iter(hp:p): every paragraph in document order, with its parent and its
\* zero-based index among the children of that parent
RECURSIVE IterParas(_, _, _), IterRuns(_), IterKids(_), IterRows(_), IterCells(_)
IterParas(ps, par, i) ==
    IF ps = <<>> THEN <<>>
    ELSE <<[id |-> Head(ps).id, par |-> par, idx |-> i, p |-> Head(ps)]>>
         \o IterRuns(Head(ps).runs) \o IterParas(Tail(ps), par, i + 1)

IterRuns(rs) ==
    IF rs = <<>> THEN <<>> ELSE IterKids(Head(rs).kids) \o IterRuns(Tail(rs))

IterKids(ks) ==
    IF ks = <<>> THEN <<>>
    ELSE (IF Head(ks).tag = "tbl" THEN IterRows(Head(ks).rows) ELSE <<>>)
         \o IterKids(Tail(ks))

IterRows(rows) ==
    IF rows = <<>> THEN <<>> ELSE IterCells(Head(rows).cells) \o IterRows(Tail(rows))

IterCells(cells) ==
    IF cells = <<>> THEN <<>>
    ELSE IterParas(Head(cells).paras, Head(cells).id, 0) \o IterCells(Tail(cells))

iter_p(d) == IterParas(d, Root, 0)

\* the identities of a list of nodes
Ids(s) == [k \in 1..Len(s) |-> s[k].id]

InTree(d, id) == \E k \in 1..Len(iter_p(d)) : iter_p(d)[k].id = id

\* the live paragraph behind a reference
ParaOf(d, id) ==
    LET es == SelectSeq(iter_p(d), LAMBDA e : e.id = id) IN es[1].p

\* p.getparent()
ParentOf(d, id) ==
    LET es == SelectSeq(iter_p(d), LAMBDA e : e.id = id) IN es[1].par

\* list(parent), for the root or for a cell
ChildrenOf(d, par) ==
    IF par = Root THEN d
    ELSE LET es == SelectSeq(iter_p(d), LAMBDA e : e.par = par)
         IN  [k \in 1..Len(es) |-> es[k].p]

\* list(parent).index(p), zero-based; -1 where p is no child of parent
IndexIn(kids, id) ==
    IF \E k \in 1..Len(kids) : kids[k].id = id
    THEN (CHOOSE k \in 1..Len(kids) : kids[k].id = id) - 1
    ELSE -1

\* the tree after the children of parent became kids
SetChildren(d, par, kids) ==
    IF par = Root THEN kids
    ELSE MapParas(d, [op |-> "setkids", par |-> par, kids |-> kids], 0)

\* the tree after the paragraph id was changed in place to q
SetPara(d, id, q) == MapParas(d, [op |-> "setp", id |-> id, q |-> q], 0)

\* copy.deepcopy(p): the copy and everything below it are new objects
deepcopy(p, off) == MapParas(<<p>>, [op |-> "reid", off |-> off], 0)[1]

\* _fix_all_n_year_text over the whole section
fix_all_n_year_text(d, total_years, stage) ==
    MapParas(d, [op |-> "fix", total_years |-> total_years, stage |-> stage], 0)

(***************************************************************************)
(* write_hwpx.py: expand_year_blocks                                       *)
(***************************************************************************)
Target(fam) == IF fam = "goal" THEN GoalTarget ELSE ContentTarget

\* new_year_text of the two families
NewYearText(fam, stage) ==
    <<"sq", SP, "2", "cha", "nyeondo", "(", Str(stage), "dangye", ")">>
    \o (IF fam = "goal" THEN <<SP, "goal:">> ELSE <<>>)

\* '□' in st and '차년도' in st
IsYearAnchor(st) == Contains(st, LblSquare) /\ Contains(st, LblChaNyeondo)

\* the number of paragraphs of the block that starts with n paragraphs and goes
\* on at siblings[j]; the goal block also ends behind an empty paragraph
RECURSIVE BlockLen(_, _, _, _)
BlockLen(siblings, j, n, fam) ==
    IF j > Len(siblings) THEN n
    ELSE IF IsYearAnchor(get_all_text(siblings[j])) THEN n
         ELSE IF fam = "goal" /\ get_all_text(siblings[j]) = <<>> THEN n + 1
              ELSE BlockLen(siblings, j + 1, n + 1, fam)

\* the copies of the block for year yr, new objects moved by off
CopyBlock(block, yr, off) ==
    [k \in 1..Len(block) |->
        IF Contains(get_all_text(block[k]), LblYearN(2))
        THEN set_para_text(deepcopy(block[k], off),
                           Replace(get_all_text(block[k]), LblYearN(2), LblYearN(yr)))
        ELSE deepcopy(block[k], off)]

\* for k, bp in enumerate(block): parent.insert(insert_pos + k, new_p)
RECURSIVE InsertBlock(_, _, _, _)
InsertBlock(kids, insert_pos, copies, k) ==
    IF k > Len(copies) THEN kids
    ELSE InsertBlock(InsertAt(kids, insert_pos + k - 1, copies[k]), insert_pos, copies, k + 1)

\* for yr in range(3, total_years + 1): ...; insert_pos += len(block)
\* the objects of one copy are moved by nid, and nid doubles, so that no
\* identity is used twice
RECURSIVE InsertCopies(_, _, _, _, _, _, _)
InsertCopies(kids, block, insert_pos, yr, total_years, nid, copies) ==
    IF yr > total_years THEN [kids |-> kids, nid |-> nid, copies |-> copies]
    ELSE InsertCopies(InsertBlock(kids, insert_pos, CopyBlock(block, yr, nid), 1),
                      block, insert_pos + Len(block), yr + 1, total_years, 2 * nid,
                      Append(copies, [k \in 1..Len(block) |-> block[k].id + nid]))

\* the body of the loop for an anchor id whose text is the target: the label
\* is set, and from three periods on the block is collected and copied
ExpandAt(d, id, fam, total_years, stage, nid) ==
    LET d1 == SetPara(d, id, set_para_text(ParaOf(d, id), NewYearText(fam, stage)))
    IN  IF total_years < 3 THEN [doc |-> d1, nid |-> nid, log |-> <<>>]
        ELSE LET parent == ParentOf(d1, id)
                 siblings == ChildrenOf(d1, parent)
                 idx == IndexIn(siblings, id)
                 n == BlockLen(siblings, idx + 2, 1, fam)
                 block == SubSeq(siblings, idx + 1, idx + n)
                 r == InsertCopies(siblings, block, idx + n, 3, total_years, nid, <<>>)
             IN  [doc |-> SetChildren(d1, parent, r.kids), nid |-> r.nid,
                  log |-> <<[fam |-> fam, anchor |-> id, parent |-> parent,
                             block |-> Ids(block), copies |-> r.copies]>>]

\* for p in list(root.iter(hp:p)), ids being what is left of the list: with
\* fewer than three periods the loop goes on to the next match (continue),
\* otherwise it ends behind the first one (break).  The anchors of the
\* templates explored hold no table, so no paragraph of the list leaves the
\* tree while the loop runs.
RECURSIVE ExpandLoop(_, _, _, _, _, _, _)
ExpandLoop(d, ids, fam, total_years, stage, nid, log) ==
    IF ids = <<>> THEN [doc |-> d, nid |-> nid, log |-> log]
    ELSE IF get_all_text(ParaOf(d, Head(ids))) # Target(fam)
         THEN ExpandLoop(d, Tail(ids), fam, total_years, stage, nid, log)
         ELSE IF total_years < 3
              THEN ExpandLoop(ExpandAt(d, Head(ids), fam, total_years, stage, nid).doc,
                              Tail(ids), fam, total_years, stage, nid, log)
              ELSE [ExpandAt(d, Head(ids), fam, total_years, stage, nid)
                        EXCEPT !.log = log \o @]

expand_goal_year_blocks(d, total_years, stage, nid) ==
    ExpandLoop(d, Ids(iter_p(d)), "goal", total_years, stage, nid, <<>>)

expand_content_year_blocks(d, total_years, stage, nid, log) ==
    ExpandLoop(d, Ids(iter_p(d)), "content", total_years, stage, nid, log)

(***************************************************************************)
(* The year blocks of a template: a first-period header, the goal anchor   *)
(* with its body, a second goal anchor, the content anchor with its body.  *)
(* An anchor's text lies in one span or is cut into several.               *)
(***************************************************************************)
MaxPeriods == 5
MaxStage == 2

\* the runs of a paragraph whose text is cut behind the positions cuts
RECURSIVE Spans(_, _, _)
Spans(text, cuts, from) ==
    IF cuts = <<>> THEN <<Run(<<T(SubSeq(text, from, Len(text)))>>)>>
    ELSE <<Run(<<T(SubSeq(text, from, Head(cuts)))>>)>> \o Spans(text, Tail(cuts), Head(cuts) + 1)

\* a one-cell box embedded in paragraph i, holding one paragraph
Box(i, lsa, text) ==
    Run(<<Tbl(1, 1, <<Tr(0, <<TcId(10 + i, <<PlainP(20 + i, lsa, text)>>)>>)>>)>>)

Lbl2 == <<"2", "cha", "nyeondo">>

MkPara(k, i) ==
    IF k.kind = "anchor" THEN P(i, TRUE, Spans(Target(k.fam), k.cuts, 1))
    ELSE IF k.kind = "year1"
         THEN PlainP(i, FALSE, <<"sq", SP, "1", "cha", "nyeondo", "(", "1", "dangye", ")",
                                 SP, "goal:">>)
    ELSE IF k.kind = "plain" THEN PlainP(i, TRUE, <<"o", SP, "main">>)
    ELSE IF k.kind = "label" THEN PlainP(i, TRUE, <<"o", SP>> \o Lbl2 \o <<SP, "main">>)
    ELSE IF k.kind = "box"
         THEN P(i, TRUE, <<Run(<<T(<<"o", SP>> \o Lbl2)>>), Box(i, TRUE, <<"note">>)>>)
    ELSE IF k.kind = "two"
         THEN P(i, FALSE, <<Run(<<T(<<"o", SP>>)>>), Run(<<T(Lbl2 \o <<SP, "joint">>)>>)>>)
    ELSE PlainP(i, FALSE, <<>>)

Kind(k) == [kind |-> k]

Anchor(fam, cuts) == [kind |-> "anchor", fam |-> fam, cuts |-> cuts]

\* one span; two spans; three spans that cut both generic fragments
AnchorCuts == <<<<>>, <<9>>, <<3, 7>>>>

GoalBodies == {<<>>, <<Kind("label")>>, <<Kind("box")>>, <<Kind("two"), Kind("plain")>>}

ContentBodies == {<<>>, <<Kind("label")>>}

BlockTemplates ==
    {<<Kind("year1")>>
        \o (IF ga = 0 THEN <<>> ELSE <<Anchor("goal", AnchorCuts[ga])>>) \o gb
        \o (IF sep THEN <<Kind("blank")>> ELSE <<>>)
        \o (IF extra = 0 THEN <<>> ELSE <<Anchor("goal", AnchorCuts[extra])>>)
        \o (IF ca = 0 THEN <<>> ELSE <<Anchor("content", AnchorCuts[ca])>>) \o cb :
     ga \in 0..3, gb \in GoalBodies, sep \in BOOLEAN, extra \in {0, 3},
     ca \in {0, 1, 3}, cb \in ContentBodies}

MkDoc(ks) == [i \in 1..Len(ks) |-> MkPara(ks[i], i)]

GhB0 == [nid |-> 32, doc0 |-> <<>>, blog |-> <<>>, prev |-> <<>>]

InitBlocks ==
    /\ pc = "template"
    /\ \E ks \in BlockTemplates : doc = MkDoc(ks)
    /\ tbl = EmptyTbl
    /\ outerH = 0
    /\ inp = Inp0
    /\ loc = Loc0
    /\ gh = GhB0

\* expand_year_blocks(root, total_years, stage): the two expansions, then the
\* sweep over every text span
ExpandYearBlocks(total_years, stage) ==
    \E g \in {expand_goal_year_blocks(doc, total_years, stage, gh.nid)} :
      \E c \in {expand_content_year_blocks(g.doc, total_years, stage, g.nid, g.log)} :
        /\ doc' = fix_all_n_year_text(c.doc, total_years, stage)
        /\ gh' = [gh EXCEPT !.nid = c.nid, !.blog = c.log, !.prev = doc,
                            !.doc0 = IF pc = "template" THEN doc ELSE @]

\* modify_application step 1 on the template, _meta being read
StepExpandYearBlocks ==
    /\ pc = "template"
    /\ pc' = "expanded"
    /\ \E total_years \in 1..MaxPeriods, stage \in 1..MaxStage :
        /\ inp' = [inp EXCEPT !.total_years = total_years, !.stage = stage]
        /\ ExpandYearBlocks(total_years, stage)
    /\ UNCHANGED <<tbl, outerH, loc>>

\* the pipeline run once more on its own output, with the same _meta
StepExpandAgain ==
    /\ pc = "expanded"
    /\ pc' = "rerun"
    /\ ExpandYearBlocks(inp.total_years, inp.stage)
    /\ UNCHANGED <<tbl, outerH, inp, loc>>

NextBlocks == StepExpandYearBlocks \/ StepExpandAgain

SpecBlocks == InitBlocks /\ [][NextBlocks]_vars

(***************************************************************************)
(* Properties of the block expansion                                       *)
(***************************************************************************)
\* the paragraphs of the template whose text is the target of the family
AnchorsOf(d, fam) ==
    {iter_p(d)[k].id : k \in {j \in 1..Len(iter_p(d)) :
                                 get_all_text(iter_p(d)[j].p) = Target(fam)}}

RECURSIVE Flatten(_)
Flatten(ss) == IF ss = <<>> THEN <<>> ELSE Head(ss) \o Flatten(Tail(ss))

\* the block e.block is followed at once by its copies, in the order they were
\* made, and there is one copy for each period from 3 to total_years
CopiesFollowBlock(e) ==
    LET ids == Ids(ChildrenOf(doc, e.parent))
        pos == CHOOSE k \in 1..Len(ids) : ids[k] = e.block[1]
        all == e.block \o Flatten(e.copies)
    IN  /\ Len(e.copies) = inp.total_years - 2
        /\ pos + Len(all) - 1 <= Len(ids)
        /\ SubSeq(ids, pos, pos + Len(all) - 1) = all

\* the k-th paragraph of the copy for period yr reads as the k-th paragraph of
\* the block with the label of period 2 replaced by the label of yr
CopiesCarryLabel(e) ==
    \A y \in 1..Len(e.copies) : \A k \in 1..Len(e.block) :
        /\ InTree(doc, e.copies[y][k])
        /\ get_all_text(ParaOf(doc, e.copies[y][k]))
             = Replace(get_all_text(ParaOf(doc, e.block[k])), Lbl2, LblYearN(y + 2))

\* the anchors of the template read as the label of period 2
AnchorsRewritten ==
    \A fam \in {"goal", "content"} : \A id \in AnchorsOf(gh.doc0, fam) :
        get_all_text(ParaOf(doc, id)) = NewYearText(fam, inp.stage)

\* every family present was expanded once, and nothing else was added
BlocksAdded ==
    /\ \A fam \in {"goal", "content"} :
          AnchorsOf(gh.doc0, fam) # {} =>
              \E k \in 1..Len(gh.blog) :
                  /\ gh.blog[k].fam = fam
                  /\ gh.blog[k].anchor \in AnchorsOf(gh.doc0, fam)
                  /\ CopiesFollowBlock(gh.blog[k])
    /\ Len(doc) = Len(gh.doc0) + Len(Flatten(Flatten([k \in 1..Len(gh.blog) |->
                                                        gh.blog[k].copies])))

BlocksAsClaimed ==
    IF inp.total_years < 3
    THEN Ids(iter_p(doc)) = Ids(iter_p(gh.doc0)) /\ AnchorsRewritten
    ELSE BlocksAdded /\ \A k \in 1..Len(gh.blog) : CopiesCarryLabel(gh.blog[k])

\* C5: with fewer than 3 periods expand_year_blocks rewrites the anchor labels
\* and adds no paragraph; from 3 periods on, every family present gets
\* total_years - 2 copies of its block right behind the block, in ascending
\* period order, each copy in the order of the block and reading as the block
\* with its own period's label in place of the label of period 2.  Stated as
\* claimed; set_para_text rewrites the first text span only.
C5_BlocksAsClaimed == pc = "expanded" => BlocksAsClaimed

\* the part of C5 on the paragraphs added and their places
C5_Structure ==
    pc = "expanded" =>
        IF inp.total_years < 3 THEN Ids(iter_p(doc)) = Ids(iter_p(gh.doc0))
        ELSE BlocksAdded

\* every paragraph keeps its text in one span of its own
OneSpan(d) ==
    \A k \in 1..Len(iter_p(d)) :
        Len(Flatten([r \in 1..Len(iter_p(d)[k].p.runs) |->
                SelectSeq(iter_p(d)[k].p.runs[r].kids, LAMBDA x : x.tag = "t")])) <= 1

\* C5 on the templates whose paragraphs hold one text span each
C5_OneSpan == OneSpan(gh.doc0) => C5_BlocksAsClaimed

\* C9: expand_year_blocks run again on its own output, with the same period
\* count and stage, adds no paragraph and changes no label.  Stated as
\* claimed; an anchor the first run left alone is expanded by the second.
C9_Idempotent == pc = "rerun" => doc = gh.prev

\* C9 on the templates whose paragraphs hold one text span each
C9_OneSpan == OneSpan(gh.doc0) => C9_Idempotent

(***************************************************************************)
(* write_hwpx.py: the placeholder pass of modify_application               *)
(***************************************************************************)
\* find_all_placeholder_paras: (p, parent, idx) of every paragraph whose text
\* is the sentinel, in document order
find_all_placeholder_paras(d) ==
    LET es == SelectSeq(iter_p(d), LAMBDA e : get_all_text(e.p) = Sentinel)
    IN  [k \in 1..Len(es) |-> [p |-> es[k].id, parent |-> es[k].par, idx |-> es[k].idx]]

\* for i, line in enumerate(content_lines):
\*     parent.insert(insert_idx + i, make_content_para(placeholder_p, line))
\* the new paragraphs are the objects nid, nid + 1, ...
RECURSIVE InsertLines(_, _, _, _, _, _)
InsertLines(kids, placeholder_p, insert_idx, content_lines, i, nid) ==
    IF i >= Len(content_lines) THEN kids
    ELSE InsertLines(InsertAt(kids, insert_idx + i,
                              make_content_para(placeholder_p, content_lines[i + 1], nid + i)),
                     placeholder_p, insert_idx, content_lines, i + 1, nid)

\* parent.remove(placeholder_p)
RemoveNode(kids, id) == SelectSeq(kids, LAMBDA x : x.id # id)

\* replace_placeholder(placeholder_p, parent, idx, content_lines) on the tree d,
\* ph being the tuple found for the placeholder
replace_placeholder(d, ph, content_lines, nid) ==
    IF content_lines = <<>> THEN d
    ELSE SetChildren(d, ph.parent,
             RemoveNode(InsertLines(ChildrenOf(d, ph.parent), ParaOf(d, ph.p), ph.idx,
                                    content_lines, 0, nid),
                        ph.p))

\* section_map: six sections and the eight of 'commercialization'
FixedSections == 6
CommSections == 8
SectionCount == FixedSections + CommSections

\* bounds of the templates and inputs explored
MaxParas == 3
FreeSections == 3
MaxLines == 2
LongDoc == 15

\* line k of the content of section s
Line(s, k) == <<"c">> \o NumText(s) \o <<"l", Str(k)>>

Lines(s, n) == [k \in 1..n |-> Line(s, k)]

\* a section given as a list of lines, or as one string
AsList(lines) == [kind |-> "list", lines |-> lines]

AsStr(text) == [kind |-> "str", text |-> text]

\* the content of the sections, in the order of section_map: the first
\* FreeSections have 0..MaxLines lines each, the others are all empty or all
\* one line long; with as_str a section of one line or none is a string
SectionData ==
    {[s \in 1..SectionCount |->
        LET n_s == IF s <= FreeSections THEN n[s] ELSE rest
        IN  IF as_str /\ n_s <= 1
            THEN AsStr(IF n_s = 1 THEN Line(s, 1) ELSE <<>>)
            ELSE AsList(Lines(s, n_s))] :
        n \in [1..FreeSections -> 0..MaxLines], rest \in 0..1, as_str \in BOOLEAN}

\* if isinstance(content, str): content = [content] if content else []
ContentLines(content) ==
    IF content.kind = "str"
    THEN (IF content.text # <<>> THEN <<content.text>> ELSE <<>>)
    ELSE content.lines

\* the paragraphs of a template: plain text; a sentinel; a sentinel in two
\* spans with an empty box; a paragraph with no text of its own around a box
\* that holds a sentinel; the same with text of its own
MkParaPH(kind, i) ==
    IF kind = "text" THEN PlainP(i, FALSE, <<"text">>)
    ELSE IF kind = "ph" THEN PlainP(i, TRUE, Sentinel)
    ELSE IF kind = "phbox"
         THEN P(i, TRUE, Spans(Sentinel, <<1>>, 1) \o <<Box(i, FALSE, <<>>)>>)
    ELSE IF kind = "host" THEN P(i, FALSE, <<Box(i, TRUE, Sentinel)>>)
    ELSE P(i, FALSE, <<Run(<<T(<<"see">>)>>), Box(i, TRUE, Sentinel)>>)

ParaKinds == {"text", "ph", "phbox", "host", "hostx"}

PHTemplates ==
    UNION {[1..n -> ParaKinds] : n \in 1..MaxParas} \cup {[i \in 1..LongDoc |-> "ph"]}

MkDocPH(ks) == [i \in 1..Len(ks) |-> MkParaPH(ks[i], i)]

GhP0 == [nid |-> 100, doc0 |-> <<>>, log |-> <<>>]

InitPH ==
    /\ pc = "template"
    /\ \E ks \in PHTemplates : doc = MkDocPH(ks)
    /\ tbl = EmptyTbl
    /\ outerH = 0
    /\ inp = Inp0
    /\ loc = Loc0
    /\ gh = GhP0

\* modify_application step 2 up to the loop: the placeholders are found and
\* the content of the sections is mapped onto them by position
StepFindPlaceholders ==
    /\ pc = "template"
    /\ \E sections \in SectionData :
        \E placeholders \in {find_all_placeholder_paras(doc)} :
            /\ inp' = [sections |-> sections]
            /\ loc' = [placeholders |-> placeholders,
                       placeholder_contents |->
                           [i \in 1..Len(placeholders) |->
                               IF i <= SectionCount THEN ContentLines(sections[i]) ELSE <<>>],
                       i |-> Len(placeholders)]
            /\ pc' = IF placeholders = <<>> THEN "done" ELSE "fill"
    /\ gh' = [gh EXCEPT !.doc0 = doc]
    /\ UNCHANGED <<tbl, outerH, doc>>

\* one turn of 'for i in range(len(placeholders) - 1, -1, -1)'; loc.i is the
\* one-based position of the placeholder that is next
StepReplace ==
    /\ pc = "fill"
    /\ loc.i >= 1
    /\ pc' = IF loc.i = 1 THEN "done" ELSE "fill"
    /\ loc' = [loc EXCEPT !.i = @ - 1]
    /\ \E ph \in {loc.placeholders[loc.i]}, content \in {loc.placeholder_contents[loc.i]} :
        IF content # <<>>
        THEN /\ doc' = replace_placeholder(doc, ph, content, gh.nid)
             /\ gh' = [gh EXCEPT !.nid = @ + Len(content),
                          !.log = Append(@, [i |-> loc.i, p |-> ph.p, parent |-> ph.parent,
                                             idx |-> ph.idx,
                                             at |-> IndexIn(ChildrenOf(doc, ph.parent), ph.p),
                                             new |-> [k \in 1..Len(content) |-> gh.nid + k - 1],
                                             lines |-> content])]
        ELSE UNCHANGED <<doc, gh>>
    /\ UNCHANGED <<tbl, outerH, inp>>

NextPH == StepFindPlaceholders \/ StepReplace

SpecPH == InitPH /\ [][NextPH]_vars

(***************************************************************************)
(* Properties of the placeholder pass                                      *)
(***************************************************************************)
\* the placeholders with no content mapped to them
Unfilled == {i \in 1..Len(loc.placeholders) : loc.placeholder_contents[i] = <<>>}

UnfilledIds == {loc.placeholders[i].p : i \in Unfilled}

\* the placeholder is where it was, and reads as the sentinel
Untouched(ph) ==
    /\ InTree(doc, ph.p)
    /\ ParentOf(doc, ph.p) = ph.parent
    /\ get_all_text(ParaOf(doc, ph.p)) = Sentinel

UnfilledUntouched ==
    /\ \A i \in Unfilled : Untouched(loc.placeholders[i])
    /\ SelectSeq(Ids(iter_p(doc)), LAMBDA x : x \in UnfilledIds)
         = SelectSeq(Ids(iter_p(gh.doc0)), LAMBDA x : x \in UnfilledIds)

\* C6: in the placeholder pass every placeholder with empty or unmapped
\* content stays in the tree, at its place, reading as the sentinel, whatever
\* is supplied for the others.  Stated as claimed; a paragraph that reads as
\* the sentinel through a box is a placeholder too.
C6_UnfilledUntouched == pc \in {"fill", "done"} => UnfilledUntouched

\* no placeholder lies in a box of another placeholder
NoNestedPlaceholder ==
    \A i, j \in 1..Len(loc.placeholders) :
        \A k \in 1..Len(IterRuns(ParaOf(gh.doc0, loc.placeholders[i].p).runs)) :
            IterRuns(ParaOf(gh.doc0, loc.placeholders[i].p).runs)[k].id
                # loc.placeholders[j].p

\* C6 on the templates where no placeholder lies inside another
C6_Separate == pc \in {"fill", "done"} /\ NoNestedPlaceholder => UnfilledUntouched

FilledIds == {gh.log[k].p : k \in 1..Len(gh.log)}

\* the children of par as the claim has them at the end: those of the template,
\* with the paragraphs of the content lines in place of a filled placeholder
ExpectedKids(par) ==
    LET kids == Ids(ChildrenOf(gh.doc0, par))
    IN  Flatten([k \in 1..Len(kids) |->
            IF kids[k] \in FilledIds
            THEN (CHOOSE e \in {gh.log[j] : j \in 1..Len(gh.log)} : e.p = kids[k]).new
            ELSE <<kids[k]>>])

\* the k-th new paragraph holds the k-th line in its first text span
LinesInOrder(e) ==
    \A k \in 1..Len(e.new) :
        /\ InTree(doc, e.new[k])
        /\ LET q == ParaOf(doc, e.new[k])
           IN  q.runs # <<>> /\ HasT(q.runs[1])
               /\ q.runs[1].kids[FirstT(q.runs[1])].text = e.lines[k]

\* the replacements were made last placeholder first, each at an index that
\* was still the placeholder's position
IndexValid ==
    /\ \A k \in 1..Len(gh.log) : gh.log[k].at = gh.log[k].idx
    /\ \A k \in 1..(Len(gh.log) - 1) : gh.log[k].i > gh.log[k + 1].i

FilledInPlace ==
    /\ \A par \in {Root} \cup {gh.log[k].parent : k \in 1..Len(gh.log)} :
          Ids(ChildrenOf(doc, par)) = ExpectedKids(par)
    /\ \A k \in 1..Len(gh.log) : LinesInOrder(gh.log[k]) /\ ~InTree(doc, gh.log[k].p)

\* C10: the placeholders are replaced last first, each at the moment of its
\* replacement still at the index found for it; at the end the paragraphs of
\* the content lines of every filled placeholder stand, in input order, where
\* the placeholder stood, the placeholder is gone, and the other nodes are in
\* their order.  Stated as claimed; the lines of a placeholder inside the box
\* of another filled placeholder leave the tree with the box.
C10_ReverseFill == IndexValid /\ (pc = "done" => FilledInPlace)

\* the first part of C10, on every template
C10_IndexValid == pc \in {"fill", "done"} => IndexValid

\* C10 on the templates where no placeholder lies inside another
C10_Separate == pc = "done" /\ NoNestedPlaceholder => IndexValid /\ FilledInPlace

(***************************************************************************)
(* write_hwpx.py: fill_yearly_goals                                        *)
(***************************************************************************)
\* the section titles and the label lines
GoalSection == <<"ga.", SP, "R&D", SP, "goal">>
ContentSection == <<"3)", SP, "project", SP, "content">>
Roles == <<"main", "joint", "contracted">>

\* '○ (주관연구개발과제):', '○ (공동연구개발과제):', '○ (위탁연구개발과제):'
RoleLabel(role) == <<"o", SP, "(", role, ")", ":">>

\* for p in root.iter(hp:p): if search_text in get_all_text(p): return p
RECURSIVE FirstPara(_, _)
FirstPara(es, search_text) ==
    IF es = <<>> THEN 0
    ELSE IF Contains(get_all_text(Head(es).p), search_text) THEN Head(es).id
         ELSE FirstPara(Tail(es), search_text)

\* find_para_by_text: the first paragraph whose text holds search_text, 0 for
\* None
find_para_by_text(d, search_text) == FirstPara(iter_p(d), search_text)

\* the role whose label line the text is, "" for none
RoleOf(text) ==
    IF \E r \in 1..Len(Roles) : text = RoleLabel(Roles[r])
    THEN Roles[CHOOSE r \in 1..Len(Roles) : text = RoleLabel(Roles[r])]
    ELSE ""

\* year_key in data and data[year_key], the key being <<year_idx, role>>
HasValue(data, year_key) == year_key \in DOMAIN data /\ data[year_key] # <<>>

\* the three label branches of the loop, for a paragraph inside the region
\* that is no period header
GoalLine(p, st, data) ==
    IF st.seen_square /\ RoleOf(get_all_text(p)) # ""
       /\ HasValue(data, <<st.year_idx, RoleOf(get_all_text(p))>>)
    THEN set_para_text(p, get_all_text(p) \o <<SP>>
                          \o data[<<st.year_idx, RoleOf(get_all_text(p))>>])
    ELSE p

\* for p in root.iter(hp:p), from the k-th paragraph on;
\* st = [year_idx, in_goal, seen_square]
RECURSIVE GoalsLoop(_, _, _, _, _, _)
GoalsLoop(d, k, goal_section, content_section, st, data) ==
    IF k > Len(iter_p(d)) THEN d
    ELSE IF goal_section # 0 /\ iter_p(d)[k].id = goal_section
         THEN GoalsLoop(d, k + 1, goal_section, content_section,
                        [st EXCEPT !.in_goal = TRUE], data)
    ELSE IF content_section # 0 /\ iter_p(d)[k].id = content_section THEN d
    ELSE IF ~st.in_goal
         THEN GoalsLoop(d, k + 1, goal_section, content_section, st, data)
    ELSE IF IsYearAnchor(get_all_text(iter_p(d)[k].p))
         THEN GoalsLoop(d, k + 1, goal_section, content_section,
                        [st EXCEPT !.year_idx = @ + 1, !.seen_square = TRUE], data)
    ELSE GoalsLoop(SetPara(d, iter_p(d)[k].id, GoalLine(iter_p(d)[k].p, st, data)),
                   k + 1, goal_section, content_section, st, data)

fill_yearly_goals(d, data) ==
    GoalsLoop(d, 1, find_para_by_text(d, GoalSection), find_para_by_text(d, ContentSection),
              [year_idx |-> 0, in_goal |-> FALSE, seen_square |-> FALSE], data)

(***************************************************************************)
(* The goal and content regions of a template after the block expansion    *)
(***************************************************************************)
MaxGoalYears == 2

\* the value of a key; its digit is one above the period count, a count of 0
\* being a key too
GoalValue(year_key) == <<"g", Str(year_key[1] + 1), year_key[2]>>

\* the yearly_goals mappings: a year is absent, empty or filled for all its
\* roles, and the roles given are the last ones of Roles from one of them on
GoalData ==
    {[year_key \in {<<y, Roles[r]>> : y \in {z \in 0..MaxGoalYears : ys[z] # "absent"},
                                  r \in lo..Len(Roles)}
        |-> IF ys[year_key[1]] = "empty" THEN <<>> ELSE GoalValue(year_key)] :
     ys \in [0..MaxGoalYears -> {"absent", "empty", "filled"}],
     lo \in 1..Len(Roles)}

\* a period header of the goal region
GoalHeader(y) ==
    <<"sq", SP, Str(y), "cha", "nyeondo", "(", "1", "dangye", ")", SP, "goal:">>

\* the label line of the joint role: in one span, in two spans, or in the box
\* of a paragraph that has text of its own
JointLine(kind, i) ==
    IF kind = "one" THEN PlainP(i, TRUE, RoleLabel("joint"))
    ELSE IF kind = "two" THEN P(i, TRUE, Spans(RoleLabel("joint"), <<5>>, 1))
    ELSE P(i, FALSE, <<Run(<<T(<<"see">>)>>), Box(i, TRUE, RoleLabel("joint"))>>)

GoalTemplate(stray0, has_goal, stray1, has_content, joint) ==
    LET texts ==
            (IF stray0 THEN <<RoleLabel("main")>> ELSE <<>>)
            \o (IF has_goal THEN <<GoalSection>> ELSE <<>>)
            \o (IF stray1 THEN <<RoleLabel("contracted")>> ELSE <<>>)
            \o <<GoalHeader(1), RoleLabel("main"), <<"joint">>, RoleLabel("contracted"), <<>>,
                 GoalHeader(2), RoleLabel("main")>>
            \o (IF has_content THEN <<ContentSection>> ELSE <<>>)
            \o <<<<"sq", SP, "1", "cha", "nyeondo", "(", "1", "dangye", ")">>,
                 RoleLabel("main")>>
    IN  [i \in 1..Len(texts) |->
            IF texts[i] = <<"joint">> THEN JointLine(joint, i)
            ELSE PlainP(i, TRUE, texts[i])]

GhG0 == [nid |-> 100, doc0 |-> <<>>]

InitGoals ==
    /\ pc = "placeholders"
    /\ \E stray0 \in BOOLEAN, has_goal \in BOOLEAN, stray1 \in BOOLEAN,
          has_content \in BOOLEAN, joint \in {"one", "two", "boxed"} :
            doc = GoalTemplate(stray0, has_goal, stray1, has_content, joint)
    /\ tbl = EmptyTbl
    /\ outerH = 0
    /\ inp = Inp0
    /\ loc = Loc0
    /\ gh = GhG0

\* modify_application step 3: data['yearly_goals'] is read, and
\* fill_yearly_goals runs if it is not empty
StepFillGoals ==
    /\ pc = "placeholders"
    /\ pc' = "goals"
    /\ \E yearly_goals \in GoalData :
        /\ inp' = [yearly_goals |-> yearly_goals]
        /\ doc' = IF DOMAIN yearly_goals # {} THEN fill_yearly_goals(doc, yearly_goals)
                  ELSE doc
    /\ gh' = [gh EXCEPT !.doc0 = doc]
    /\ UNCHANGED <<tbl, outerH, loc>>

NextGoals == StepFillGoals

SpecGoals == InitGoals /\ [][NextGoals]_vars

(***************************************************************************)
(* Properties of the goal fill                                             *)
(***************************************************************************)
\* the position of the first text that holds the title, 0 for none
FirstWith(texts, title) ==
    IF \E k \in 1..Len(texts) : Contains(texts[k], title)
    THEN CHOOSE k \in 1..Len(texts) :
            Contains(texts[k], title) /\ \A j \in 1..(k - 1) : ~Contains(texts[j], title)
    ELSE 0

\* position k lies strictly between the goal title at g and the content title
\* at c (the end of the section where there is no content title)
InGoalRegion(k, g, c) == g # 0 /\ k > g /\ (c # 0 => k < c)

\* the template in document order: its paragraphs, their texts, the positions
\* of the two titles, and for every position the period headers of the region
\* before it
GoalFacts ==
    LET es == iter_p(gh.doc0)
        texts == [k \in 1..Len(es) |-> get_all_text(es[k].p)]
        g == FirstWith(texts, GoalSection)
        c == FirstWith(texts, ContentSection)
    IN  [es |-> es, texts |-> texts, g |-> g, c |-> c,
         cnt |-> [k \in 1..Len(es) |->
                    Cardinality({j \in 1..(k - 1) :
                                    InGoalRegion(j, g, c) /\ IsYearAnchor(texts[j])})]]

\* the paragraph at position k of the template is a label line that the claim
\* has rewritten
ToRewrite(f, k) ==
    /\ k <= Len(f.es)
    /\ InGoalRegion(k, f.g, f.c)
    /\ f.cnt[k] >= 1
    /\ RoleOf(f.texts[k]) # ""
    /\ HasValue(inp.yearly_goals, <<f.cnt[k], RoleOf(f.texts[k])>>)

\* the paragraph holds text in the first text span of its first run
FirstSpanIs(q, text) ==
    q.runs # <<>> /\ HasT(q.runs[1]) /\ q.runs[1].kids[FirstT(q.runs[1])].text = text

\* whole: the rewritten line reads as label + value; otherwise its first text
\* span holds label + value
GoalsAsClaimed(f, whole) ==
    \A k \in 1..Len(f.es) :
        /\ InTree(doc, f.es[k].id)
        /\ IF ToRewrite(f, k)
           THEN \E q \in {ParaOf(doc, f.es[k].id)},
                   x \in {f.texts[k] \o <<SP>>
                          \o inp.yearly_goals[<<f.cnt[k], RoleOf(f.texts[k])>>]} :
                    IF whole THEN get_all_text(q) = Strip(x) ELSE FirstSpanIs(q, x)
           ELSE \/ ParaOf(doc, f.es[k].id) = f.es[k].p
                \/ \E j \in 1..Len(IterRuns(f.es[k].p.runs)) : ToRewrite(f, k + j)

\* C14: fill_yearly_goals rewrites a label line to label + value exactly when
\* the line lies strictly between the goal title and the content title, a
\* period header came before it in that region, and a non-empty value exists
\* for the key made of the count of period headers so far and the role of the
\* label; every other paragraph is as it was.  Stated as claimed: the
\* rewritten line reads as label + value.
C14_GoalsFilled == pc = "goals" => \A f \in {GoalFacts} : GoalsAsClaimed(f, TRUE)

\* C14 with the first text span of the line in place of its text
C14_FirstSpan == pc = "goals" => \A f \in {GoalFacts} : GoalsAsClaimed(f, FALSE)

\* C14 on the templates whose label lines are one text span each
C14_OneSpan ==
    pc = "goals" /\ OneSpan(gh.doc0) => \A f \in {GoalFacts} : GoalsAsClaimed(f, TRUE)

\* a label line of the second period was rewritten, while label lines before
\* the first header, before the goal title and behind the content title,
\* each with a value for the count of headers there, were not
C14_Witness ==
    /\ pc = "goals"
    /\ \E f \in {GoalFacts} :
        /\ GoalsAsClaimed(f, FALSE)
        /\ \E k \in 1..Len(f.es) : ToRewrite(f, k) /\ f.cnt[k] = 2
        /\ \E k \in 1..Len(f.es) :
              /\ InGoalRegion(k, f.g, f.c) /\ f.cnt[k] = 0
              /\ HasValue(inp.yearly_goals, <<0, RoleOf(f.texts[k])>>)
        /\ \E k \in 1..Len(f.es) :
              /\ f.c # 0 /\ k > f.c
              /\ HasValue(inp.yearly_goals, <<f.cnt[k], RoleOf(f.texts[k])>>)
        /\ \E k \in 1..Len(f.es) :
              /\ k < f.g
              /\ HasValue(inp.yearly_goals, <<0, RoleOf(f.texts[k])>>)


(***************************************************************************)
(* write_hwpx.py: fill_yearly_contents and _fill_org_content_lines         *)
(***************************************************************************)
\* '가. 연구개발 내용', '4) 연구개발과제 수행일정 및 주요 결과물', '- 연구개발 내용'
ContentTitle == <<"ga.", SP, "R&D", SP, "content">>
ScheduleTitle == <<"4)", SP, "schedule">>
DetailPrefix == <<"-", SP, "R&D", SP, "content">>

\* range(org_para_idx + 1, min(org_para_idx + 20, len(children)))
ScanWindow == 20

\* f'   - {items[k]}'
DetailText(item) == <<SP, SP, SP, "-", SP>> \o item

\* the scan for the detail lines among children[j..hi] (positions counted
\* from one); acc holds the lines found so far
RECURSIVE ScanLines(_, _, _, _)
ScanLines(children, j, hi, acc) ==
    IF j > hi THEN acc
    ELSE IF StartsWith(get_all_text(children[j]), DetailPrefix)
         THEN ScanLines(children, j + 1, hi, Append(acc, children[j].id))
    ELSE IF acc # <<>> /\ get_all_text(children[j]) = <<>> THEN acc
    ELSE IF Contains(get_all_text(children[j]), <<"o">>)
            \/ Contains(get_all_text(children[j]), <<"sq">>) THEN acc
    ELSE ScanLines(children, j + 1, hi, acc)

\* while len(content_line_paras) < len(items): a deep copy of template_para
\* goes in behind the last line; the copies are new objects
RECURSIVE CloneLines(_, _, _, _, _)
CloneLines(children, template_para, content_line_paras, n, nid) ==
    IF Len(content_line_paras) >= n
    THEN [children |-> children, content_line_paras |-> content_line_paras, nid |-> nid]
    ELSE \* last_idx = list(parent).index(last_para)
         LET last_idx == IndexIn(children, content_line_paras[Len(content_line_paras)])
             grown == InsertAt(children, last_idx + 1, deepcopy(template_para, nid))
         IN  CloneLines(grown, template_para,
                        Append(content_line_paras, grown[last_idx + 2].id), n, nid + 100)

\* for k, content_para in enumerate(content_line_paras): every line, found by
\* its identity among the children, gets its item or the empty text
LineNo(content_line_paras, id) ==
    CHOOSE k \in 1..Len(content_line_paras) : content_line_paras[k] = id

RECURSIVE FillLines(_, _, _)
FillLines(children, content_line_paras, items) ==
    IF children = <<>> THEN <<>>
    ELSE <<IF \E k \in 1..Len(content_line_paras) : content_line_paras[k] = Head(children).id
           THEN set_para_text(Head(children),
                    IF LineNo(content_line_paras, Head(children).id) <= Len(items)
                    THEN DetailText(items[LineNo(content_line_paras, Head(children).id)])
                    ELSE <<>>)
           ELSE Head(children)>>
         \o FillLines(Tail(children), content_line_paras, items)

\* _fill_org_content_lines(parent, org_para_idx, items) on the tree d; the
\* result is the tree and the next free object
fill_org_content_lines(d, parent, org_para_idx, items, nid) ==
    IF items = <<>> THEN [d |-> d, nid |-> nid]
    ELSE LET children == ChildrenOf(d, parent)
             hi == IF org_para_idx + ScanWindow < Len(children)
                   THEN org_para_idx + ScanWindow ELSE Len(children)
             content_line_paras == ScanLines(children, org_para_idx + 2, hi, <<>>)
         IN  IF content_line_paras = <<>> THEN [d |-> d, nid |-> nid]
             ELSE LET template_para ==
                          children[IndexIn(children,
                                       content_line_paras[Len(content_line_paras)]) + 1]
                      g == CloneLines(children, template_para, content_line_paras,
                                      Len(items), nid)
                  IN  [d |-> SetChildren(d, parent,
                                 FillLines(g.children, g.content_line_paras, items)),
                       nid |-> g.nid]

\* the paragraphs collected between the two titles, in document order
RECURSIVE CollectParas(_, _, _, _)
CollectParas(es, content_section, schedule_section, collecting) ==
    IF es = <<>> THEN <<>>
    ELSE IF Head(es).id = content_section
         THEN CollectParas(Tail(es), content_section, schedule_section, TRUE)
    ELSE IF schedule_section # 0 /\ Head(es).id = schedule_section THEN <<>>
    ELSE (IF collecting THEN <<Head(es).id>> ELSE <<>>)
         \o CollectParas(Tail(es), content_section, schedule_section, collecting)

\* for p in content_paras, from the k-th on; s = [d, nid]
RECURSIVE ContentsLoop(_, _, _, _, _)
ContentsLoop(s, content_paras, k, year_idx, data) ==
    IF k > Len(content_paras) THEN s
    ELSE LET text == get_all_text(ParaOf(s.d, content_paras[k])) IN
        IF IsYearAnchor(text)
        THEN ContentsLoop(s, content_paras, k + 1, year_idx + 1, data)
        ELSE IF RoleOf(text) # "" /\ HasValue(data, <<year_idx, RoleOf(text)>>)
             THEN ContentsLoop(
                      fill_org_content_lines(s.d, ParentOf(s.d, content_paras[k]),
                          IndexIn(ChildrenOf(s.d, ParentOf(s.d, content_paras[k])),
                                  content_paras[k]),
                          data[<<year_idx, RoleOf(text)>>], s.nid),
                      content_paras, k + 1, year_idx, data)
        ELSE ContentsLoop(s, content_paras, k + 1, year_idx, data)

fill_yearly_contents(d, data, nid) ==
    LET content_section == find_para_by_text(d, ContentTitle)
        schedule_section == find_para_by_text(d, ScheduleTitle)
    IN  IF content_section = 0 THEN [d |-> d, nid |-> nid]
        ELSE ContentsLoop([d |-> d, nid |-> nid],
                          CollectParas(iter_p(d), content_section, schedule_section, FALSE),
                          1, 0, data)

(***************************************************************************)
(* The content region of a template after the block expansion              *)
(***************************************************************************)
MaxBody == 3
MaxItems == 3

\* the k-th input line of a key
ItemOf(year_key, k) == <<"c", Str(year_key[1]), year_key[2], Str(k)>>

\* the yearly_contents mappings: a list of lines for the main and the joint
\* role of the first period and for the main role of the second; a key with
\* no lines is absent or maps to the empty list
ContentData ==
    {[year_key \in {<<1, "main">>, <<1, "joint">>, <<2, "main">>}
                    \ (IF absent THEN {x \in {<<1, "main">>, <<2, "main">>} : n[x[1]] = 0}
                       ELSE {})
        |-> [k \in 1..(IF year_key[2] = "joint" THEN nj ELSE n[year_key[1]]) |->
                ItemOf(year_key, k)]] :
     n \in [1..2 -> 0..MaxItems], nj \in {0, 2}, absent \in BOOLEAN}

\* a paragraph behind a label line: a detail line in one span or in two, a
\* note, a blank line
BodyKinds == {"detail", "detail2", "note", "blank"}

\* a period header of the content region
ContentHeader(y) == <<"sq", SP, Str(y), "cha", "nyeondo", "(", "1", "dangye", ")">>

BodyPara(kind, i) ==
    IF kind = "detail" THEN PlainP(i, TRUE, DetailPrefix)
    ELSE IF kind = "detail2" THEN P(i, TRUE, Spans(DetailPrefix, <<2>>, 1))
    ELSE IF kind = "note" THEN PlainP(i, TRUE, <<"note">>)
    ELSE IF kind = "blank" THEN PlainP(i, FALSE, <<>>)
    ELSE IF kind = "title" THEN PlainP(i, TRUE, ContentTitle)
    ELSE IF kind = "schedule" THEN PlainP(i, TRUE, ScheduleTitle)
    ELSE IF kind = "sq1" THEN PlainP(i, TRUE, ContentHeader(1))
    ELSE IF kind = "sq2" THEN PlainP(i, TRUE, ContentHeader(2))
    ELSE PlainP(i, TRUE, RoleLabel(kind))

\* the title, the first period with the group of the main role (body) and of
\* the joint role, the second period, the schedule title and a group behind it
ContentTemplate(has_content, body) ==
    LET kinds ==
            (IF has_content THEN <<"title">> ELSE <<>>)
            \o <<"sq1", "main">> \o body
            \o <<"joint", "detail", "blank", "sq2", "main", "detail", "detail",
                 "blank", "schedule", "main", "detail">>
    IN  [i \in 1..Len(kinds) |-> BodyPara(kinds[i], i)]

\* the bodies explored: up to MaxBody paragraphs of every kind, and a group
\* of detail lines as long as the scan window
Bodies ==
    UNION {[1..n -> BodyKinds] : n \in 0..MaxBody} \cup {[i \in 1..ScanWindow |-> "detail"]}

GhC0 == [nid |-> 100, doc0 |-> <<>>]

InitContents ==
    /\ pc = "goals"
    /\ \E has_content \in BOOLEAN, body \in Bodies : doc = ContentTemplate(has_content, body)
    /\ tbl = EmptyTbl
    /\ outerH = 0
    /\ inp = Inp0
    /\ loc = Loc0
    /\ gh = GhC0

\* modify_application step 4: data['yearly_contents'] is read, and
\* fill_yearly_contents runs if it is not empty
StepFillContents ==
    /\ pc = "goals"
    /\ pc' = "contents"
    /\ \E yearly_contents \in ContentData :
        /\ inp' = [yearly_contents |-> yearly_contents]
        /\ IF DOMAIN yearly_contents # {}
           THEN \E r \in {fill_yearly_contents(doc, yearly_contents, gh.nid)} :
                    /\ doc' = r.d
                    /\ gh' = [gh EXCEPT !.doc0 = doc, !.nid = r.nid]
           ELSE /\ doc' = doc
                /\ gh' = [gh EXCEPT !.doc0 = doc]
    /\ UNCHANGED <<tbl, outerH, loc>>

NextContents == StepFillContents

SpecContents == InitContents /\ [][NextContents]_vars

(***************************************************************************)
(* Properties of the content fill                                          *)
(***************************************************************************)
\* the template in document order: its top-level paragraphs, their texts, the
\* positions of the two titles, and for every position the period headers of
\* the region before it
ContentFacts ==
    LET ps == gh.doc0
        texts == [k \in 1..Len(ps) |-> get_all_text(ps[k])]
        c == FirstWith(texts, ContentTitle)
        s == FirstWith(texts, ScheduleTitle)
    IN  [ps |-> ps, texts |-> texts, c |-> c, s |-> s,
         cnt |-> [k \in 1..Len(ps) |->
                    Cardinality({j \in 1..(k - 1) :
                                    InGoalRegion(j, c, s) /\ IsYearAnchor(texts[j])})]]

\* the paragraph at position k is a label line for which the lines of an
\* input list are to be written
Matched(f, k) ==
    /\ InGoalRegion(k, f.c, f.s)
    /\ ~IsYearAnchor(f.texts[k])
    /\ RoleOf(f.texts[k]) # ""
    /\ HasValue(inp.yearly_contents, <<f.cnt[k], RoleOf(f.texts[k])>>)

\* the length of the run of detail lines that starts at position k
RECURSIVE RunLen(_, _)
RunLen(f, k) ==
    IF k <= Len(f.ps) /\ StartsWith(f.texts[k], DetailPrefix) THEN 1 + RunLen(f, k + 1) ELSE 0

\* the group of a matched label line as claimed: the m template lines, then
\* the clones; line i carries item i, a line beyond the items is empty
GroupAsClaimed(f, k, m, items) ==
    [i \in 1..(IF m >= Len(items) THEN m ELSE Len(items)) |->
        [old |-> IF i <= m THEN f.ps[k + i].id ELSE 0,
         same |-> FALSE,
         text |-> IF i <= Len(items) THEN DetailText(items[i]) ELSE <<>>]]

\* the top-level paragraphs as claimed, from position k of the template on
RECURSIVE ListAsClaimed(_, _)
ListAsClaimed(f, k) ==
    IF k > Len(f.ps) THEN <<>>
    ELSE <<[old |-> f.ps[k].id, same |-> TRUE, text |-> <<>>]>>
         \o (IF Matched(f, k) /\ RunLen(f, k + 1) >= 1
             THEN GroupAsClaimed(f, k, RunLen(f, k + 1),
                      inp.yearly_contents[<<f.cnt[k], RoleOf(f.texts[k])>>])
                  \o ListAsClaimed(f, k + 1 + RunLen(f, k + 1))
             ELSE ListAsClaimed(f, k + 1))

\* whole: a written line reads as its text; otherwise its first text span
\* holds the text
LinesAsClaimed(f, exp, whole) ==
    /\ Len(doc) = Len(exp)
    /\ \A k \in 1..Len(exp) :
        IF exp[k].same THEN \E j \in 1..Len(f.ps) : f.ps[j].id = exp[k].old /\ doc[k] = f.ps[j]
        ELSE /\ IF exp[k].old # 0 THEN doc[k].id = exp[k].old
                ELSE \A j \in 1..Len(f.ps) : f.ps[j].id # doc[k].id
             /\ IF whole THEN get_all_text(doc[k]) = Strip(exp[k].text)
                ELSE FirstSpanIs(doc[k], exp[k].text)

\* C15: for a matched label line with n > 0 input lines, whose run of detail
\* lines directly behind it has m lines, the group has max(m, n) lines
\* afterwards, line k carries input line k, the template lines beyond n are
\* empty and still there, the clones stand directly behind the last detail
\* line of the run, and every paragraph outside the run is as it was.  Stated
\* as claimed.
C15_LinesFilled ==
    pc = "contents" =>
        \A f \in {ContentFacts} : \A exp \in {ListAsClaimed(f, 1)} : LinesAsClaimed(f, exp, TRUE)

\* C15 with the first text span of a line in place of its text
C15_FirstSpan ==
    pc = "contents" =>
        \A f \in {ContentFacts} : \A exp \in {ListAsClaimed(f, 1)} : LinesAsClaimed(f, exp, FALSE)

\* behind every matched label line the run of detail lines is shorter than
\* the scan window and ends at a blank line that follows a detail line, at a
\* label line or a period header, or at the end of the list
RunsEndCleanly(f) ==
    \A k \in 1..Len(f.ps) :
        Matched(f, k) =>
            \E e \in {k + 1 + RunLen(f, k + 1)} :
                /\ e - k < ScanWindow
                /\ \/ e > Len(f.ps)
                   \/ e > k + 1 /\ f.texts[e] = <<>>
                   \/ Contains(f.texts[e], <<"o">>) \/ Contains(f.texts[e], <<"sq">>)

\* C15 where the runs end cleanly, by first text spans
C15_CleanRuns ==
    pc = "contents" =>
        \A f \in {ContentFacts} :
            RunsEndCleanly(f) =>
                \A exp \in {ListAsClaimed(f, 1)} : LinesAsClaimed(f, exp, FALSE)

\* C15 where the runs end cleanly and every paragraph keeps its text in one
\* span
C15_CleanOneSpan ==
    pc = "contents" =>
        \A f \in {ContentFacts} :
            RunsEndCleanly(f) /\ OneSpan(gh.doc0) =>
                \A exp \in {ListAsClaimed(f, 1)} : LinesAsClaimed(f, exp, TRUE)

\* a group grew by clones and another had lines cleared, as claimed
C15_Witness ==
    /\ pc = "contents"
    /\ \E f \in {ContentFacts} :
        /\ RunsEndCleanly(f)
        /\ \A exp \in {ListAsClaimed(f, 1)} : LinesAsClaimed(f, exp, FALSE)
        /\ \E k \in 1..Len(f.ps) :
              Matched(f, k) /\ RunLen(f, k + 1) = 2
              /\ Len(inp.yearly_contents[<<f.cnt[k], RoleOf(f.texts[k])>>]) = 3
        /\ \E k \in 1..Len(f.ps) :
              Matched(f, k) /\ RunLen(f, k + 1) = 2
              /\ Len(inp.yearly_contents[<<f.cnt[k], RoleOf(f.texts[k])>>]) = 1

(***************************************************************************)
(* The layout cache of the paragraphs whose text was changed               *)
(***************************************************************************)
\* the text in the spans of the paragraph itself
OwnText(p) ==
    Flatten([r \in 1..Len(p.runs) |->
        Flatten([i \in 1..Len(p.runs[r].kids) |->
            IF p.runs[r].kids[i].tag = "t" THEN p.runs[r].kids[i].text ELSE <<>>])])

\* the paragraphs of row r whose text is not what it is in row r0 carry no
\* cache
ChangedParasBare(r0, r) ==
    \A j \in 1..Len(r.cells) :
        \A k \in 1..Len(r.cells[j].paras) :
            j <= Len(r0.cells) /\ k <= Len(r0.cells[j].paras)
            /\ OwnText(r.cells[j].paras[k]) # OwnText(r0.cells[j].paras[k])
                => ~r.cells[j].paras[k].lsa

\* the same for the rows of the table that were rows of the table before
ChangedRowsBare(rows0, rows) ==
    \A i \in 1..Len(rows) :
        \A i0 \in 1..Len(rows0) :
            rows0[i0].id = rows[i].id => ChangedParasBare(rows0[i0], rows[i])

\* C16: at the end of modify_application every paragraph whose text a pass
\* of the pipeline has changed carries no linesegarray.  Stated as claimed,
\* on the paragraphs of the schedule table, against the table as it was read.
C16_NoStaleCache == pc = "filled" => ChangedRowsBare(gh.raw, tbl.rows)

\* C16 right after the sweep of the generic fragments
C16_AfterSweep == pc = "swept" => ChangedRowsBare(gh.raw, tbl.rows)

\* C16 for the cell fill alone: the paragraphs that fill_schedule_table has
\* changed carry no linesegarray
C16_CellFill ==
    pc = "filled" /\ gh.pre # <<>> => ChangedRowsBare(gh.pre[1].was, tbl.rows)

(***************************************************************************)
(* write_hwpx.py: set_para_text, make_content_para and set_cell_text on    *)
(* paragraphs and cells of every shape                                     *)
(***************************************************************************)
MaxRuns == 2

\* a run: one text span, two text spans, an embedded box, a text span beside
\* a box, nothing
RunKinds == {"t", "tt", "box", "tbox", "none"}

MkRun(kind, r) ==
    IF kind = "t" THEN Run(<<T(<<"a", Str(r)>>)>>)
    ELSE IF kind = "tt" THEN Run(<<T(<<"a", Str(r)>>), T(<<"b", Str(r)>>)>>)
    ELSE IF kind = "box" THEN Box(r, TRUE, <<"in", Str(r)>>)
    ELSE IF kind = "tbox"
         THEN Run(<<T(<<"a", Str(r)>>)>> \o Box(r, TRUE, <<"in", Str(r)>>).kids)
    ELSE Run(<<>>)

\* the paragraphs explored: up to MaxRuns runs of every kind, with and
\* without a linesegarray
TextParas ==
    {P(1, lsa, [r \in 1..Len(ks) |-> MkRun(ks[r], r)]) :
        ks \in UNION {[1..n -> RunKinds] : n \in 0..MaxRuns}, lsa \in BOOLEAN}

\* the texts written: empty, a word, a word between spaces
NewTexts == {<<>>, <<"x">>, <<SP, "x", SP>>}

\* a cell whose first paragraph is p, alone or followed by another paragraph
CellOf(p, more) ==
    TcId(2, IF more THEN <<p, PlainP(3, TRUE, <<"more">>)>> ELSE <<p>>)

InitText ==
    /\ pc = "input"
    /\ \E p \in TextParas, x \in NewTexts, more \in BOOLEAN :
          inp = [p |-> p, x |-> x, tc |-> CellOf(p, more)]
    /\ tbl = EmptyTbl
    /\ outerH = 0
    /\ doc = <<>>
    /\ loc = [out |-> <<>>]
    /\ gh = [nid |-> 100]

\* set_para_text(p, x)
CallSetParaText ==
    /\ pc = "input"
    /\ pc' = "set_para_text"
    /\ loc' = [out |-> set_para_text(inp.p, inp.x)]
    /\ UNCHANGED <<tbl, outerH, doc, inp, gh>>

\* make_content_para(template_p, line)
CallMakeContentPara ==
    /\ pc = "input"
    /\ pc' = "make_content_para"
    /\ loc' = [out |-> make_content_para(inp.p, inp.x, gh.nid)]
    /\ gh' = [gh EXCEPT !.nid = @ + 1]
    /\ UNCHANGED <<tbl, outerH, doc, inp>>

\* set_cell_text(tc, x)
CallSetCellText ==
    /\ pc = "input"
    /\ pc' = "set_cell_text"
    /\ loc' = [out |-> set_cell_text(inp.tc, inp.x)]
    /\ UNCHANGED <<tbl, outerH, doc, inp, gh>>

NextText == CallSetParaText \/ CallMakeContentPara \/ CallSetCellText

SpecText == InitText /\ [][NextText]_vars

(***************************************************************************)
(* Properties of the text setters                                          *)
(***************************************************************************)
\* the result of the call reads as the text written, trimmed
ReadsAsWritten ==
    IF pc = "set_cell_text" THEN get_all_text_tc(loc.out) = Strip(inp.x)
    ELSE get_all_text(loc.out) = Strip(inp.x)

\* C17: after set_para_text(p, x) the text of p is x trimmed, the paragraph
\* made by make_content_para(template, line) reads as line trimmed, and after
\* set_cell_text(cell, x) the text of the cell is x trimmed, whatever the
\* runs and text spans of the paragraph.  Stated as claimed.
C17_TextIsSet == pc # "input" => ReadsAsWritten

\* the number of text spans in the runs rs
RECURSIVE SpanCount(_)
SpanCount(rs) ==
    IF rs = <<>> THEN 0
    ELSE Len(SelectSeq(Head(rs).kids, LAMBDA x : x.tag = "t")) + SpanCount(Tail(rs))

\* the runs of the paragraph that hold no box have at most one text span
\* between them, which lies in the first of them, and the cell holds one
\* paragraph
SingleSpan ==
    /\ \E rs \in {DropTblRuns(inp.p.runs)} :
          SpanCount(rs) = 0 \/ (SpanCount(rs) = 1 /\ HasT(rs[1]))
    /\ Len(inp.tc.paras) = 1

\* C17 on the paragraphs with at most one text span outside their boxes, in
\* their first run, and in cells of one paragraph
C17_SingleSpan == pc # "input" /\ SingleSpan => ReadsAsWritten

\* the first text span of the result holds the text written, and the result
\* carries no linesegarray and no box
C17_FirstSpanSet ==
    pc # "input" =>
        \E q \in {IF pc = "set_cell_text" THEN loc.out.paras[1] ELSE loc.out} :
            /\ ~q.lsa
            /\ \A r \in 1..Len(q.runs) : ~HasTbl(q.runs[r])
            /\ \E r \in 1..Len(q.runs) :
                  /\ HasT(q.runs[r]) /\ q.runs[r].kids[FirstT(q.runs[r])].text = inp.x
                  /\ \A j \in 1..(r - 1) : ~HasT(q.runs[j])
====
